---- MODULE Spec2Model ----
(***************************************************************************)
(* A model of the cyberpunk-rs audio gateway: the bounded-concurrency      *)
(* processor (processor/processor.rs, processor/ffmpeg.rs), the request    *)
(* pipeline (middleware.rs, routes/cyberpunkpath.rs) and the filesystem    *)
(* response cache (cache/fs.rs).                                           *)
(*                                                                         *)
(* Several families of specifications share the variables:                 *)
(*   SpecProcessor / SpecProcessorFair : concurrent Processor::process     *)
(*   Spec                              : the request pipeline              *)
(*   SpecWrites                        : the pipeline, file writes by call *)
(*   SpecFsCache                       : FileSystemCache get/set/delete    *)
(*   SpecFileStorage                   : FileStorage put/get/delete        *)
(*   SpecParams / SpecFields           : the Params codec and its fields   *)
(*   SpecNormalize / SpecHasher        : key normalization, result names   *)
(*   SpecTags / SpecFormat             : tag composer, AudioFormat strings *)
(*   SpecRange                         : Range handling of a cached entry  *)
(*   SpecAuth                          : path signing and auth_middleware  *)
(*   SpecMinio                         : wait_for_minio at startup         *)
(***************************************************************************)

EXTENDS Integers, Sequences, FiniteSets, TLC

VARIABLES
    maxConcurrent,  \* Processor::new: the number of permits the semaphore was built with
    permits,        \* Semaphore: permits currently available
    waiters,        \* Semaphore: FIFO queue of callers suspended in acquire()
    ppc,            \* per caller: position inside Processor::process
    pHasPermit,     \* per caller: the _permit guard is alive
    pTempDir,       \* per caller: the TempDir of this call exists on disk
    pRet,           \* per caller: how the last call returned ("none" while in flight)
    storage,        \* AudioStorage: key -> NoFile or <<bytes>>
    cacheData,      \* cache data files: key -> NoFile or <<bytes>>
    cacheMeta,      \* cache .meta files: key -> NoFile or <<expiry epoch second>>
    now,            \* wall clock, in ticks of 1/TicksPerSec second
    req,            \* per request task: position and locals of cache_middleware + handler
    arrivals,       \* number of requests received so far
    fsop,           \* filesystem-cache client: record of the last completed operation
    call            \* a single call of a pure function or middleware: inputs and result

procVars == <<maxConcurrent, permits, waiters, ppc, pHasPermit, pTempDir, pRet>>
storeVars == <<storage, cacheData, cacheMeta, now>>
vars == <<maxConcurrent, permits, waiters, ppc, pHasPermit, pTempDir, pRet,
          storage, cacheData, cacheMeta, now, req, arrivals, fsop, call>>

(***************************************************************************)
(* Bounds of the model.                                                    *)
(***************************************************************************)
NumCallers == 3        \* concurrent callers of Processor::process
MaxConcurrency == 2    \* largest configured processor.concurrency
MaxRequests == 2       \* requests received in one run of the pipeline
TicksPerSec == 3       \* clock resolution: ticks per second
MaxFineTicks == 7      \* how far the filesystem-cache clock runs, in ticks
MaxTtlSecs == 1        \* largest TTL (seconds) given to FileSystemCache::set
MaxElapsedTtl == 1     \* how many whole CACHE_TTL periods the pipeline clock runs

Callers == 1..NumCallers
\* Two request tasks run concurrently; a task that has answered its request
\* takes the next one.
Reqs == {1, 2}

\* An absent file, and Option::None; a present file or Some(x) is <<x>>.
NoFile == <<>>
None == <<>>
Some(x) == <<x>>

(***************************************************************************)
(* Processor (processor/processor.rs, processor/ffmpeg.rs)                 *)
(***************************************************************************)

\* The steps of process() at which a call can fail, in program order.
ProcFaults == {"tempdir", "write", "spawn", "wait", "read"}

\* A call holds its permit and is inside process() past the acquire.
InFlight == {c \in Callers : ppc[c] \in {"tempdir", "write", "spawn", "wait", "read"}}

\* Processor::new: Semaphore::new(max_concurrent), max_concurrent non-zero.
ProcessorNew(n) ==
    /\ maxConcurrent = n
    /\ permits = n
    /\ waiters = <<>>

\* A task calls process() and is queued on the semaphore (tokio's semaphore is FIFO).
Call(c) ==
    /\ ppc[c] = "idle"
    /\ ppc' = [ppc EXCEPT ![c] = "acquire"]
    /\ pRet' = [pRet EXCEPT ![c] = "none"]
    /\ waiters' = Append(waiters, c)
    /\ UNCHANGED <<maxConcurrent, permits, pHasPermit, pTempDir>>

\* A mutant of Acquire: the permit count is not consulted.
AcquireUnguarded(c) ==
    /\ ppc[c] = "acquire"
    /\ waiters # <<>> /\ Head(waiters) = c
    /\ permits' = permits - 1
    /\ waiters' = Tail(waiters)
    /\ pHasPermit' = [pHasPermit EXCEPT ![c] = TRUE]
    /\ ppc' = [ppc EXCEPT ![c] = "tempdir"]
    /\ UNCHANGED <<maxConcurrent, pTempDir, pRet>>

\* let _permit = self.semaphore.acquire().await?
Acquire(c) ==
    /\ ppc[c] = "acquire"
    /\ waiters # <<>> /\ Head(waiters) = c
    /\ permits > 0
    /\ permits' = permits - 1
    /\ waiters' = Tail(waiters)
    /\ pHasPermit' = [pHasPermit EXCEPT ![c] = TRUE]
    /\ ppc' = [ppc EXCEPT ![c] = "tempdir"]
    /\ UNCHANGED <<maxConcurrent, pTempDir, pRet>>

\* A mutant of ProcessReturn: an error return keeps the permit.
ProcessReturnLeak(c, res) ==
    /\ ppc' = [ppc EXCEPT ![c] = "idle"]
    /\ pRet' = [pRet EXCEPT ![c] = res]
    /\ pTempDir' = [pTempDir EXCEPT ![c] = FALSE]
    /\ pHasPermit' = [pHasPermit EXCEPT ![c] = (res # "Ok")]
    /\ permits' = IF res = "Ok" THEN permits + 1 ELSE permits
    /\ UNCHANGED <<maxConcurrent, waiters>>

\* process() returns res: temp_dir (moved into process_audio) is dropped when
\* process_audio returns, _permit when process() returns.
ProcessReturn(c, res) ==
    /\ ppc' = [ppc EXCEPT ![c] = "idle"]
    /\ pRet' = [pRet EXCEPT ![c] = res]
    /\ pTempDir' = [pTempDir EXCEPT ![c] = FALSE]
    /\ pHasPermit' = [pHasPermit EXCEPT ![c] = FALSE]
    /\ permits' = permits + 1
    /\ UNCHANGED <<maxConcurrent, waiters>>

\* A step of the call past the creation of the temp dir: it either succeeds and
\* the call moves on, or fails and `?` returns the error.
ProcStep(c, at, next) ==
    /\ ppc[c] = at
    /\ \E ok \in BOOLEAN :
        IF ok
        THEN /\ ppc' = [ppc EXCEPT ![c] = next]
             /\ UNCHANGED <<maxConcurrent, permits, waiters, pHasPermit, pTempDir, pRet>>
        ELSE ProcessReturn(c, at)

\* let temp_dir = TempDir::new()?
TempDirNew(c) ==
    /\ ppc[c] = "tempdir"
    /\ \E ok \in BOOLEAN :
        IF ok
        THEN /\ ppc' = [ppc EXCEPT ![c] = "write"]
             /\ pTempDir' = [pTempDir EXCEPT ![c] = TRUE]
             /\ UNCHANGED <<maxConcurrent, permits, waiters, pHasPermit, pRet>>
        ELSE ProcessReturn(c, "tempdir")

\* tokio::fs::write(&input_path, input).await?
WriteInput(c) == ProcStep(c, "write", "spawn")

\* cmd.status(): the transcoder is spawned (or the spawn fails)
SpawnTranscoder(c) == ProcStep(c, "spawn", "wait")

\* cmd.status().await: the transcoder exits; a non-zero status is an error
TranscoderExit(c) == ProcStep(c, "wait", "read")

\* tokio::fs::read(&output_path).await?, then Ok(AudioBuffer)
ReadOutput(c) ==
    /\ ppc[c] = "read"
    /\ \E ok \in BOOLEAN : ProcessReturn(c, IF ok THEN "Ok" ELSE "read")

InitProcessor ==
    /\ \E n \in 1..MaxConcurrency : ProcessorNew(n)
    /\ ppc = [c \in Callers |-> "idle"]
    /\ pHasPermit = [c \in Callers |-> FALSE]
    /\ pTempDir = [c \in Callers |-> FALSE]
    /\ pRet = [c \in Callers |-> "none"]

(***************************************************************************)
(* Params and fingerprints (cyberpunkpath/params.rs, cyberpunkpath/hasher.rs) *)
(***************************************************************************)

\* A key is its text split at the places the code looks at: a leading scheme
\* (or none), the part up to the last '.', and the extension from that '.' on
\* (<<>> when the key has no '.' after its last '/').
\* A Params value holds the key and the query fields in to_query's insert order.
PFile == [key |-> [lead |-> "", stem |-> "a", ext |-> <<".", "mp3">>],
          query |-> << <<"format", "wav">>, <<"volume", "0.8">> >>]
PUrl == [key |-> [lead |-> "http://", stem |-> "h/u", ext |-> <<".", "mp3">>],
         query |-> << <<"format", "mp3">> >>]
ParamsSet == {PFile, PUrl}
Methods == {"GET"}

\* The iteration orders a HashMap of n entries can produce.
Perms(n) == {f \in [1..n -> 1..n] : \A i, j \in 1..n : f[i] = f[j] => i = j}

\* impl Display for Params: "{key}?{k=v&...}" in the map's iteration order.
ParamsToString(p, perm) ==
    [key |-> p.key, query |-> [i \in 1..Len(p.query) |-> p.query[perm[i]]]]

\* Sha1::digest(path)[..10] in hex: an injective tag of the digested text.
Sha1Prefix(text) == text

\* params.format, as the query holds it.
FormatOf(p) ==
    LET fs == {i \in 1..Len(p.query) : p.query[i][1] = "format"}
    IN IF fs = {} THEN None ELSE Some(p.query[CHOOSE i \in fs : TRUE][2])

\* The name a raw request key addresses in storage.
RawKey(key) == [stem |-> <<key.lead, key.stem>>, hash |-> <<>>, ext |-> key.ext]

\* suffix_result_storage_hasher: scheme stripped, ".{hash}" put before the
\* extension, the extension replaced by the format when one is given.
SuffixResult(p, perm) ==
    LET hash == Sha1Prefix(ParamsToString(p, perm))
    IN IF p.key.ext # <<>>
       THEN [stem |-> <<"", p.key.stem>>, hash |-> <<hash>>,
             ext |-> IF FormatOf(p) # None THEN <<".", FormatOf(p)[1]>> ELSE p.key.ext]
       ELSE [stem |-> <<"", p.key.stem>>, hash |-> <<hash>>, ext |-> <<>>]

ResultKeys ==
    UNION {{SuffixResult(p, perm) : perm \in Perms(Len(p.query))} : p \in ParamsSet}
SourceKeys == {RawKey(p.key) : p \in ParamsSet}
StorageKeys == ResultKeys \cup SourceKeys

(***************************************************************************)
(* Filesystem response cache (cache/fs.rs)                                 *)
(***************************************************************************)

\* SystemTime::now().duration_since(UNIX_EPOCH).as_secs(): whole seconds.
EpochSecs(t) == t \div TicksPerSec

\* A mutant of FsIsExpired: an entry expires in its last second.
FsIsExpiredEarly(meta, k, t) ==
    IF meta[k] = NoFile THEN FALSE ELSE EpochSecs(t) >= meta[k][1]

\* FileSystemCache::is_expired: no meta file means no expiry.
FsIsExpired(meta, k, t) ==
    IF meta[k] = NoFile THEN FALSE ELSE EpochSecs(t) > meta[k][1]

\* FileSystemCache::get: None when the data file is missing or expired.
FsGet(data, meta, k, t) ==
    IF data[k] = NoFile \/ FsIsExpired(meta, k, t) THEN None ELSE Some(data[k][1])

\* FileSystemCache::set, the data file.
FsSetData(data, k, v) == [data EXCEPT ![k] = Some(v)]

\* FileSystemCache::set, the meta file: written only when a TTL is given.
FsSetMeta(meta, k, ttl, t) ==
    IF ttl = None THEN meta ELSE [meta EXCEPT ![k] = Some(EpochSecs(t) + ttl[1])]

\* FileSystemCache::delete: both files are removed.
FsDelete(files, k) == [files EXCEPT ![k] = NoFile]
(***************************************************************************)
(* Request pipeline (middleware.rs, routes/cyberpunkpath.rs)               *)
(***************************************************************************)

CACHE_KEY_PREFIX == "req_cache:"
META_CACHE_KEY_PREFIX == "meta_cache:"
CACHE_TTL == 3600

\* cache_middleware: the prefix is chosen by whether params.to_string(), which
\* begins with the key, starts with "/meta".
CacheKeyPrefix(p) ==
    IF p.key.lead = "/meta" THEN META_CACHE_KEY_PREFIX ELSE CACHE_KEY_PREFIX

\* cache_middleware: format!("{}:{}:{}", prefix, method, params_hash)
CacheKey(p, method, perm) ==
    [prefix |-> CacheKeyPrefix(p), method |-> method, hash |-> SuffixResult(p, perm)]

CacheKeys ==
    UNION {{CacheKey(p, m, perm) : m \in Methods, perm \in Perms(Len(p.query))} :
           p \in ParamsSet}

\* Byte strings: the stored source, the body of a 2xx answer of the source URL,
\* the body of a non-2xx answer, and the text of an error response.
SourceBytes == <<1, 2, 3>>
UrlBytes == <<4, 5>>
UrlErrorBody == <<6>>
ErrorText == <<0>>

\* The transcoder, a deterministic function of its input and the parameters:
\* the output format is params.format, Mp3 when absent.
MagicByte(format) == IF format = "wav" THEN 7 ELSE 8
Transcode(input, p) ==
    <<MagicByte(IF FormatOf(p) = None THEN "mp3" ELSE FormatOf(p)[1])>> \o input

\* Processor::process as one call: Err when any step fails, else the output.
ProcessResult(input, p, fault) ==
    IF fault = "none" THEN Some(Transcode(input, p)) ELSE None

\* The Range headers a request may carry: none, or "bytes=s-e" where a bound
\* that does not parse as a number is <<>>.
NoRange == <<>>
RangeHeaders ==
    {NoRange} \cup {<<[start |-> Some(0), end |-> Some(1)]>>,
                    <<[start |-> Some(1), end |-> None]>>,
                    <<[start |-> Some(2), end |-> Some(0)]>>}

\* A task that panicked sends no response: status 0.
Panicked == [status |-> 0, body |-> <<>>]

\* usize arithmetic of a build without overflow checks. The width is narrowed
\* to 16 bits: what matters below is that a difference below zero wraps
\* around to a value above every length.
USIZE_MAX == 65535
WrapSub(a, b) == IF a >= b THEN a - b ELSE a - b + USIZE_MAX + 1
WrapAdd(a, b) == (a + b) % (USIZE_MAX + 1)

\* parse_range: (start, end), a bound that is no number replaced by 0 and by
\* total_size - 1, the end clamped to total_size - 1. None stands for the
\* panic of total_size - 1 in a build with overflow checks.
ParseRange(range, total, checks) ==
    IF total = 0 /\ checks THEN None
    ELSE LET max == WrapSub(total, 1)
             start == IF range[1].start = None THEN 0 ELSE range[1].start[1]
             last == IF range[1].end = None THEN max ELSE range[1].end[1]
         IN Some([start |-> start, end |-> IF last < max THEN last ELSE max])

\* A mutant of HitResponse: the end of the range is taken as sent, not clamped
\* to the entry.
HitResponseUnclamped(buf, range, checks) ==
    IF range = NoRange
    THEN [status |-> 200, body |-> buf]
    ELSE LET start == IF range[1].start = None THEN 0 ELSE range[1].start[1]
             end == IF range[1].end = None THEN Len(buf) - 1 ELSE range[1].end[1]
         IN IF Len(buf) = 0 \/ start > end \/ end + 1 > Len(buf)
            THEN Panicked
            ELSE [status |-> 206, body |-> SubSeq(buf, start + 1, end + 1)]

\* The hit branch: the whole entry without a Range header, else 206 with
\* buf[start..=end]. `checks` tells whether the build has overflow checks:
\* with them end - start + 1 panics when start > end; without them the slice
\* panics unless start <= end + 1 <= total_size, and it is empty when
\* start = end + 1.
HitResponse(buf, range, checks) ==
    IF range = NoRange
    THEN [status |-> 200, body |-> buf]
    ELSE LET total == Len(buf)
             parsed == ParseRange(range, total, checks)
         IN IF parsed = None THEN Panicked
            ELSE LET start == parsed[1].start
                     end == parsed[1].end
                 IN IF start > end /\ checks THEN Panicked
                    ELSE IF start > end + 1 \/ end + 1 > total THEN Panicked
                    ELSE [status |-> 206, body |-> SubSeq(buf, start + 1, end + 1)]

\* The Content-Length and Content-Range headers of a hit response that was
\* sent; <<>> where the header is absent.
HitHeaders(buf, range, checks) ==
    IF range = NoRange
    THEN [content_length |-> Some(Len(buf)), content_range |-> None]
    ELSE LET parsed == ParseRange(range, Len(buf), checks)[1]
         IN [content_length |-> Some(WrapAdd(WrapSub(parsed.end, parsed.start), 1)),
             content_range |-> Some(<<parsed.start, parsed.end, Len(buf)>>)]

\* The cache holds an entry under k whose expiry second has not passed.
HoldsUnexpired(k) ==
    /\ cacheData[k] # NoFile
    /\ cacheMeta[k] = NoFile \/ EpochSecs(now) <= cacheMeta[k][1]

IdleReq ==
    [pc |-> "idle", params |-> <<>>, ckey |-> <<>>, hkey |-> <<>>, blob |-> <<>>,
     resp |-> <<>>, log |-> <<>>, held |-> <<>>, seen |-> <<>>, range |-> <<>>,
     cached |-> <<>>]

\* The request ends: the response is emitted.
Done(q, status, body, events) ==
    [q EXCEPT !.pc = "done",
              !.resp = Some([status |-> status, body |-> body]),
              !.log = @ \o events \o <<IF status = 200 THEN "respond" ELSE "respond_err">>]

\* A request arrives and is taken by the first free task; the middleware
\* computes its cache key.
Arrive(r) ==
    /\ req[r].pc \in {"idle", "done"}
    /\ \A q \in Reqs : q < r => req[q].pc \notin {"idle", "done"}
    /\ arrivals < MaxRequests
    /\ arrivals' = arrivals + 1
    /\ \E p \in ParamsSet, m \in Methods :
        \E perm \in Perms(Len(p.query)) :
            req' = [req EXCEPT ![r] = [IdleReq EXCEPT !.pc = "mw_get", !.params = p,
                                                      !.ckey = CacheKey(p, m, perm)]]
    /\ UNCHANGED <<procVars, storeVars, fsop, call>>

\* state.cache.get(&cache_key) fails: map_err(...)? returns 500.
CacheGetErr(r) ==
    /\ req[r].pc = "mw_get"
    /\ req' = [req EXCEPT ![r] =
                  Done([req[r] EXCEPT !.held = Some(HoldsUnexpired(req[r].ckey))],
                       500, ErrorText, <<"cache_err">>)]
    /\ UNCHANGED <<procVars, storeVars, fsop, arrivals, call>>

\* A mutant of CacheHit: the entry is read but the request goes on to the handler.
CacheHitFallsThrough(r) ==
    /\ req[r].pc = "mw_get"
    /\ FsGet(cacheData, cacheMeta, req[r].ckey, now) # None
    /\ \E perm \in Perms(Len(req[r].params.query)) :
        req' = [req EXCEPT ![r] = [req[r] EXCEPT !.pc = "h_lookup",
                                            !.held = Some(HoldsUnexpired(req[r].ckey)),
                                            !.hkey = SuffixResult(req[r].params, perm),
                                            !.log = @ \o <<"cache_hit">>]]
    /\ UNCHANGED <<procVars, storeVars, fsop, arrivals, call>>

\* cache.get returned Some(buf): the response is built from buf, honouring Range.
CacheHit(r) ==
    /\ req[r].pc = "mw_get"
    /\ FsGet(cacheData, cacheMeta, req[r].ckey, now) # None
    /\ \E range \in RangeHeaders, checks \in BOOLEAN :
        LET buf == FsGet(cacheData, cacheMeta, req[r].ckey, now)[1]
            res == HitResponse(buf, range, checks)
        IN req' = [req EXCEPT ![r] =
                      Done([req[r] EXCEPT !.held = Some(HoldsUnexpired(req[r].ckey)),
                                     !.seen = Some(buf), !.range = range],
                           res.status, res.body, <<"cache_hit">>)]
    /\ UNCHANGED <<procVars, storeVars, fsop, arrivals, call>>

\* cache.get returned None: next.run(req), the handler computes params_hash.
CacheMiss(r) ==
    /\ req[r].pc = "mw_get"
    /\ FsGet(cacheData, cacheMeta, req[r].ckey, now) = None
    /\ \E perm \in Perms(Len(req[r].params.query)) :
        req' = [req EXCEPT ![r] = [req[r] EXCEPT !.pc = "h_lookup",
                                            !.held = Some(HoldsUnexpired(req[r].ckey)),
                                            !.hkey = SuffixResult(req[r].params, perm),
                                            !.log = @ \o <<"cache_miss">>]]
    /\ UNCHANGED <<procVars, storeVars, fsop, arrivals, call>>
\* The inner handler returned 200 with `body`: the middleware goes on to cache it.
InnerOk(q, body, events) ==
    [q EXCEPT !.pc = "mw_set",
              !.resp = Some([status |-> 200, body |-> body]),
              !.log = @ \o events]

\* A mutant of ResultHit: a stored result is ignored and the source is fetched.
ResultHitRefetch(r) ==
    /\ req[r].pc = "h_lookup"
    /\ storage[req[r].hkey] # NoFile
    /\ req' = [req EXCEPT ![r] = [req[r] EXCEPT !.pc = "h_fetch",
                                           !.seen = storage[req[r].hkey],
                                           !.log = @ \o <<"result_hit">>]]
    /\ UNCHANGED <<procVars, storeVars, fsop, arrivals, call>>

\* state.storage.get(&params_hash) is Ok(blob): the handler answers with the blob.
ResultHit(r) ==
    /\ req[r].pc = "h_lookup"
    /\ storage[req[r].hkey] # NoFile
    /\ req' = [req EXCEPT ![r] =
                  InnerOk([req[r] EXCEPT !.seen = storage[req[r].hkey]],
                          storage[req[r].hkey][1], <<"result_hit">>)]
    /\ UNCHANGED <<procVars, storeVars, fsop, arrivals, call>>

\* state.storage.get(&params_hash) is Err: the source has to be fetched.
ResultMiss(r) ==
    /\ req[r].pc = "h_lookup"
    /\ storage[req[r].hkey] = NoFile
    /\ req' = [req EXCEPT ![r] = [req[r] EXCEPT !.pc = "h_fetch",
                                           !.seen = storage[req[r].hkey],
                                           !.log = @ \o <<"result_miss">>]]
    /\ UNCHANGED <<procVars, storeVars, fsop, arrivals, call>>

IsUrl(key) == key.lead \in {"http://", "https://"}

\* reqwest::get(&params.key).await: an Err (no connection) is 404; any response,
\* whatever its status, is Ok and its body is read next.
FetchUrl(r) ==
    /\ req[r].pc = "h_fetch"
    /\ IsUrl(req[r].params.key)
    /\ \E outcome \in {"connect_err", "2xx", "non2xx"} :
        req' = [req EXCEPT ![r] =
                  CASE outcome = "connect_err" ->
                         Done(req[r], 404, ErrorText, <<"fetch_err">>)
                    [] outcome = "2xx" ->
                         [req[r] EXCEPT !.pc = "h_body", !.blob = UrlBytes,
                                   !.log = @ \o <<"status_2xx">>]
                    [] outcome = "non2xx" ->
                         [req[r] EXCEPT !.pc = "h_body", !.blob = UrlErrorBody,
                                   !.log = @ \o <<"status_non2xx">>]]
    /\ UNCHANGED <<procVars, storeVars, fsop, arrivals, call>>

\* .bytes().await: a failed body read is 500, else the bytes become the blob.
FetchBody(r) ==
    /\ req[r].pc = "h_body"
    /\ \E ok \in BOOLEAN :
        req' = [req EXCEPT ![r] =
                  IF ok
                  THEN [req[r] EXCEPT !.pc = "h_process", !.log = @ \o <<"fetch_ok">>]
                  ELSE Done(req[r], 500, ErrorText, <<"body_err">>)]
    /\ UNCHANGED <<procVars, storeVars, fsop, arrivals, call>>

\* state.storage.get(&params.key).await: Err is 404.
FetchStorage(r) ==
    /\ req[r].pc = "h_fetch"
    /\ ~IsUrl(req[r].params.key)
    /\ LET src == storage[RawKey(req[r].params.key)]
       IN req' = [req EXCEPT ![r] =
                  IF src = NoFile
                  THEN Done(req[r], 404, ErrorText, <<"fetch_err">>)
                  ELSE [req[r] EXCEPT !.pc = "h_process", !.blob = src[1],
                                 !.log = @ \o <<"fetch_ok">>]]
    /\ UNCHANGED <<procVars, storeVars, fsop, arrivals, call>>

\* A mutant of ProcessAudio: a processor error is swallowed and the input stored.
ProcessAudioSwallow(r) ==
    /\ req[r].pc = "h_process"
    /\ \E fault \in ProcFaults \cup {"none"} :
        LET res == ProcessResult(req[r].blob, req[r].params, fault)
        IN req' = [req EXCEPT ![r] =
                  IF res = None
                  THEN [req[r] EXCEPT !.pc = "h_put", !.log = @ \o <<"process_err">>]
                  ELSE [req[r] EXCEPT !.pc = "h_put", !.blob = res[1],
                                 !.log = @ \o <<"process_ok">>]]
    /\ UNCHANGED <<procVars, storeVars, fsop, arrivals, call>>

\* state.processor.process(&blob, &params).await: Err is 500.
ProcessAudio(r) ==
    /\ req[r].pc = "h_process"
    /\ \E fault \in ProcFaults \cup {"none"} :
        LET res == ProcessResult(req[r].blob, req[r].params, fault)
        IN req' = [req EXCEPT ![r] =
                  IF res = None
                  THEN Done(req[r], 500, ErrorText, <<"process_err">>)
                  ELSE [req[r] EXCEPT !.pc = "h_put", !.blob = res[1],
                                 !.log = @ \o <<"process_ok">>]]
    /\ UNCHANGED <<procVars, storeVars, fsop, arrivals, call>>

\* FileStorage::put: the file is opened with truncate, then written. A failed
\* open leaves the object as it was, a failed write leaves it truncated.
PutResult(store, k, bytes, outcome) ==
    CASE outcome = "ok" -> [store EXCEPT ![k] = Some(bytes)]
      [] outcome = "open_err" -> store
      [] outcome = "write_err" -> [store EXCEPT ![k] = Some(<<>>)]

\* A mutant of StoragePut: a failed put is logged and the bytes are served anyway.
StoragePutSwallow(r) ==
    /\ req[r].pc = "h_put"
    /\ \E outcome \in {"ok", "open_err", "write_err"} :
        /\ storage' = PutResult(storage, req[r].hkey, req[r].blob, outcome)
        /\ req' = [req EXCEPT ![r] =
                      InnerOk(req[r], req[r].blob, <<IF outcome = "ok" THEN "put_ok" ELSE "put_err">>)]
    /\ UNCHANGED <<procVars, cacheData, cacheMeta, now, fsop, arrivals, call>>

\* A mutant of StoragePut: the bytes are served without being stored.
StoragePutSkipped(r) ==
    /\ req[r].pc = "h_put"
    /\ req' = [req EXCEPT ![r] = InnerOk(req[r], req[r].blob, <<>>)]
    /\ UNCHANGED <<procVars, storeVars, fsop, arrivals, call>>

\* state.storage.put(&params_hash, &processed_blob).await: Err is 500, Ok is the
\* 200 response carrying the processed bytes.
StoragePut(r) ==
    /\ req[r].pc = "h_put"
    /\ \E outcome \in {"ok", "open_err", "write_err"} :
        /\ storage' = PutResult(storage, req[r].hkey, req[r].blob, outcome)
        /\ req' = [req EXCEPT ![r] =
                      IF outcome = "ok"
                      THEN InnerOk(req[r], req[r].blob, <<"put_ok">>)
                      ELSE Done(req[r], 500, ErrorText, <<"put_err">>)]
    /\ UNCHANGED <<procVars, cacheData, cacheMeta, now, fsop, arrivals, call>>

\* A mutant of CacheSet: the entry is stored without a TTL.
CacheSetNoTtl(r) ==
    /\ req[r].pc = "mw_set"
    /\ \E ok \in BOOLEAN :
        LET k == req[r].ckey
            body == req[r].resp[1].body
        IN /\ cacheData' = IF ok THEN FsSetData(cacheData, k, body) ELSE cacheData
           /\ cacheMeta' = IF ok THEN FsSetMeta(cacheMeta, k, None, now) ELSE cacheMeta
           /\ req' = [req EXCEPT ![r] =
                         Done([req[r] EXCEPT !.cached = <<cacheData'[k], cacheMeta'[k], now>>],
                              200, body, <<IF ok THEN "set_ok" ELSE "set_err">>)]
    /\ UNCHANGED <<procVars, storage, now, fsop, arrivals, call>>

\* let _ = state.cache.set(&cache_key, bytes, Some(CACHE_TTL)).await; the
\* response is then returned whether or not the set succeeded.
CacheSet(r) ==
    /\ req[r].pc = "mw_set"
    /\ \E ok \in BOOLEAN :
        LET k == req[r].ckey
            body == req[r].resp[1].body
        IN /\ cacheData' = IF ok THEN FsSetData(cacheData, k, body) ELSE cacheData
           /\ cacheMeta' = IF ok THEN FsSetMeta(cacheMeta, k, Some(CACHE_TTL), now)
                                 ELSE cacheMeta
           /\ req' = [req EXCEPT ![r] =
                         Done([req[r] EXCEPT !.cached = <<cacheData'[k], cacheMeta'[k], now>>],
                              200, body, <<IF ok THEN "set_ok" ELSE "set_err">>)]
    /\ UNCHANGED <<procVars, storage, now, fsop, arrivals, call>>

\* Time passes: a whole CACHE_TTL, or one second more than a multiple of it.
Elapse ==
    /\ \E d \in {1, CACHE_TTL} :
        /\ d = 1 => EpochSecs(now) % CACHE_TTL = 0
        /\ EpochSecs(now) + d <= MaxElapsedTtl * CACHE_TTL + 1
        /\ now' = now + d * TicksPerSec
    /\ UNCHANGED <<procVars, storage, cacheData, cacheMeta, req, fsop, arrivals, call>>

InitStores ==
    /\ cacheData = [k \in CacheKeys |-> NoFile]
    /\ cacheMeta = [k \in CacheKeys |-> NoFile]
    /\ now = 0

InitIdle ==
    /\ req = [r \in Reqs |-> IdleReq]
    /\ arrivals = 0
    /\ call = <<>>
    /\ fsop = <<>>

\* The pipeline starts with empty caches and no results; the source object of
\* a storage key may or may not have been uploaded.
Init ==
    /\ ProcessorNew(1)
    /\ ppc = [c \in Callers |-> "idle"]
    /\ pHasPermit = [c \in Callers |-> FALSE]
    /\ pTempDir = [c \in Callers |-> FALSE]
    /\ pRet = [c \in Callers |-> "none"]
    /\ InitStores
    /\ InitIdle
    /\ \E present \in BOOLEAN :
        storage = [k \in StorageKeys |->
                      IF present /\ k \in SourceKeys /\ k.stem[1] = ""
                      THEN Some(SourceBytes) ELSE NoFile]

Next ==
    \/ \E r \in Reqs :
        \/ Arrive(r)
        \/ CacheGetErr(r)
        \/ CacheHit(r)
        \/ CacheMiss(r)
        \/ ResultHit(r)
        \/ ResultMiss(r)
        \/ FetchUrl(r)
        \/ FetchBody(r)
        \/ FetchStorage(r)
        \/ ProcessAudio(r)
        \/ StoragePut(r)
        \/ CacheSet(r)
    \/ Elapse

Spec == Init /\ [][Next]_vars

(***************************************************************************)
(* Concurrent callers of Processor::process                                *)
(***************************************************************************)
InitProc ==
    /\ InitProcessor
    /\ InitStores
    /\ InitIdle
    /\ storage = [k \in StorageKeys |-> NoFile]

NextProcessor ==
    /\ \E c \in Callers :
        \/ Call(c)
        \/ Acquire(c)
        \/ TempDirNew(c)
        \/ WriteInput(c)
        \/ SpawnTranscoder(c)
        \/ TranscoderExit(c)
        \/ ReadOutput(c)
    /\ UNCHANGED <<storage, cacheData, cacheMeta, now, req, fsop, arrivals, call>>

SpecProcessor == InitProc /\ [][NextProcessor]_vars

\* Every runnable step of a call is eventually taken: the runtime polls ready
\* tasks, file operations return, and the transcoder terminates. Calls
\* themselves are made at the callers' discretion.
FairProcessor ==
    \A c \in Callers :
        /\ WF_vars(Acquire(c) /\ UNCHANGED <<storage, cacheData, cacheMeta, now, req, fsop, arrivals, call>>)
        /\ WF_vars(TempDirNew(c) /\ UNCHANGED <<storage, cacheData, cacheMeta, now, req, fsop, arrivals, call>>)
        /\ WF_vars(WriteInput(c) /\ UNCHANGED <<storage, cacheData, cacheMeta, now, req, fsop, arrivals, call>>)
        /\ WF_vars(SpawnTranscoder(c) /\ UNCHANGED <<storage, cacheData, cacheMeta, now, req, fsop, arrivals, call>>)
        /\ WF_vars(TranscoderExit(c) /\ UNCHANGED <<storage, cacheData, cacheMeta, now, req, fsop, arrivals, call>>)
        /\ WF_vars(ReadOutput(c) /\ UNCHANGED <<storage, cacheData, cacheMeta, now, req, fsop, arrivals, call>>)

SpecProcessorFair == InitProc /\ [][NextProcessor]_vars /\ FairProcessor

(***************************************************************************)
(* A client of the filesystem cache                                        *)
(***************************************************************************)
FsKeys == {CacheKey(p, "GET", [i \in 1..Len(p.query) |-> i]) : p \in ParamsSet}
FsValues == {<<1>>, <<2>>}
Ttls == {None} \cup {Some(d) : d \in 0..MaxTtlSecs}

\* cache.set(k, v, ttl): the data file, then the meta file.
FsCacheSet(k, v, ttl) ==
    /\ cacheData' = FsSetData(cacheData, k, v)
    /\ cacheMeta' = FsSetMeta(cacheMeta, k, ttl, now)
    /\ fsop' = [last |-> [fsop.last EXCEPT ![k] = Some([val |-> v, ttl |-> ttl, at |-> now])],
                got |-> None]
    /\ UNCHANGED <<procVars, storage, now, req, arrivals, call>>

\* A mutant of FsCacheGet: a get that finds the entry expired removes its files.
FsCacheGetPurging(k) ==
    /\ fsop' = [fsop EXCEPT !.got = Some([key |-> k,
                                          res |-> FsGet(cacheData, cacheMeta, k, now)])]
    /\ cacheData' = IF FsIsExpired(cacheMeta, k, now) THEN FsDelete(cacheData, k)
                                                      ELSE cacheData
    /\ cacheMeta' = IF FsIsExpired(cacheMeta, k, now) THEN FsDelete(cacheMeta, k)
                                                      ELSE cacheMeta
    /\ UNCHANGED <<procVars, storage, now, req, arrivals, call>>

\* cache.get(k); the result is kept until the next operation or tick.
FsCacheGet(k) ==
    /\ fsop' = [fsop EXCEPT !.got = Some([key |-> k,
                                          res |-> FsGet(cacheData, cacheMeta, k, now)])]
    /\ UNCHANGED <<procVars, storeVars, req, arrivals, call>>

\* cache.delete(k)
FsCacheDelete(k) ==
    /\ cacheData' = FsDelete(cacheData, k)
    /\ cacheMeta' = FsDelete(cacheMeta, k)
    /\ fsop' = [last |-> [fsop.last EXCEPT ![k] = None], got |-> None]
    /\ UNCHANGED <<procVars, storage, now, req, arrivals, call>>

\* The clock advances by one tick.
Tick ==
    /\ now < MaxFineTicks
    /\ now' = now + 1
    /\ fsop' = [fsop EXCEPT !.got = None]
    /\ UNCHANGED <<procVars, storage, cacheData, cacheMeta, req, arrivals, call>>

InitFsCache ==
    /\ ProcessorNew(1)
    /\ ppc = [c \in Callers |-> "idle"]
    /\ pHasPermit = [c \in Callers |-> FALSE]
    /\ pTempDir = [c \in Callers |-> FALSE]
    /\ pRet = [c \in Callers |-> "none"]
    /\ InitStores
    /\ storage = [k \in StorageKeys |-> NoFile]
    /\ req = [r \in Reqs |-> IdleReq]
    /\ arrivals = 0
    /\ call = <<>>
    /\ fsop = [last |-> [k \in FsKeys |-> None], got |-> None]

NextFsCache ==
    \/ \E k \in FsKeys :
        \/ \E v \in FsValues, ttl \in Ttls : FsCacheSet(k, v, ttl)
        \/ FsCacheGet(k)
        \/ FsCacheDelete(k)
    \/ Tick

SpecFsCache == InitFsCache /\ [][NextFsCache]_vars

(***************************************************************************)
(* Params codec (cyberpunkpath/params.rs)                                  *)
(*                                                                         *)
(* Text is a sequence of tokens: "/", "?", "&" and "=" are those           *)
(* characters, any other token is a run of characters with none of them.   *)
(* Query names and values are texts too.                                   *)
(***************************************************************************)

\* str::starts_with
StartsWith(s, pre) == Len(pre) <= Len(s) /\ SubSeq(s, 1, Len(pre)) = pre

\* str::trim_start_matches(pat): the prefix is removed as often as it matches.
RECURSIVE TrimStartMatches(_, _)
TrimStartMatches(s, pat) ==
    IF StartsWith(s, pat)
    THEN TrimStartMatches(SubSeq(s, Len(pat) + 1, Len(s)), pat)
    ELSE s

\* str::split(sep): the pieces between separators; a text without separator,
\* the empty text included, is one piece.
RECURSIVE Split(_, _)
Split(s, sep) ==
    IF \E i \in 1..Len(s) : s[i] = sep
    THEN LET i == CHOOSE i \in 1..Len(s) : s[i] = sep /\ \A j \in 1..(i - 1) : s[j] # sep
         IN <<SubSeq(s, 1, i - 1)>> \o Split(SubSeq(s, i + 1, Len(s)), sep)
    ELSE <<s>>

\* Iterator::last of a split: Some(last piece), None for no piece at all.
LastPiece(pieces) == IF pieces = <<>> THEN None ELSE Some(pieces[Len(pieces)])

\* urlencoding::encode and the decoding of form_urlencoded::parse, token by token.
EncodeToken(t) ==
    CASE t = "&" -> "%26" [] t = "=" -> "%3D" [] t = "?" -> "%3F" [] t = "/" -> "%2F"
      [] OTHER -> t
DecodeToken(t) ==
    CASE t = "%26" -> "&" [] t = "%3D" -> "=" [] t = "%3F" -> "?" [] t = "%2F" -> "/"
      [] OTHER -> t
UrlEncode(v) == [i \in 1..Len(v) |-> EncodeToken(v[i])]
UrlDecode(v) == [i \in 1..Len(v) |-> DecodeToken(v[i])]

\* str::to_lowercase, on the tokens that have upper-case letters.
ToLowercase(v) ==
    [i \in 1..Len(v) |->
        CASE v[i] = "WAV" -> "wav" [] v[i] = "Mp3" -> "mp3" [] v[i] = "AAC" -> "aac"
          [] OTHER -> v[i]]

\* impl FromStr for AudioFormat: Some(format), the empty text being Unknown
\* (written "", its extension), None for Err.
AudioFormats == {"mp3", "wav", "flac", "ogg", "m4a", "opus", ""}
AudioFormatFromStr(v) ==
    LET s == ToLowercase(v)
    IN IF s = <<>> THEN Some("")
       ELSE IF Len(s) = 1 /\ s[1] \in AudioFormats \ {""} THEN Some(s[1]) ELSE None

\* value.parse::<AudioFormat>().unwrap_or(AudioFormat::Mp3)
ParseFormat(v) ==
    IF AudioFormatFromStr(v) = None THEN "mp3" ELSE AudioFormatFromStr(v)[1]

\* value.parse::<f64>().ok() and f64::to_string: a number is kept as its
\* shortest decimal text.
Decimals == {"0.8", "1", "2"}
ParseF64(v) ==
    IF Len(v) = 1 /\ v[1] \in Decimals THEN Some(v[1])
    ELSE IF v = <<"1.0">> THEN Some("1")
    ELSE None

\* value.parse::<i32>().ok() and i32::to_string: a number is kept as its
\* decimal text without sign or leading zero.
Integers32 == {"2", "44100"}
ParseI32(v) ==
    IF Len(v) = 1 /\ v[1] \in Integers32 THEN Some(v[1])
    ELSE IF v = <<"+2">> THEN Some("2")
    ELSE None

\* Any value but "false" and the empty one counts as true.
ParseBoolLoose(v) == v # <<"false">> /\ v # <<>>

\* value == "true" || value == "1"
ParseBool(v) == v = <<"true">> \/ v = <<"1">>

\* Params::default() with an empty key.
DefaultParams ==
    [key |-> <<>>, format |-> None, codec |-> None, sample_rate |-> None,
     channels |-> None, bit_rate |-> None, bit_depth |-> None, quality |-> None,
     compression_level |-> None, start_time |-> None, duration |-> None,
     speed |-> None, reverse |-> None, volume |-> None, normalize |-> None,
     normalize_level |-> None, lowpass |-> None, highpass |-> None,
     bandpass |-> None, bass |-> None, treble |-> None, echo |-> None,
     chorus |-> None, flanger |-> None, phaser |-> None, tremolo |-> None,
     compressor |-> None, noise_reduction |-> None, fade_in |-> None,
     fade_out |-> None, cross_fade |-> None, custom_filters |-> None,
     custom_options |-> None, tags |-> None]

\* Option<Vec>::get_or_insert_with(Vec::new).push(value)
PushTo(opt, value) == IF opt = None THEN Some(<<value>>) ELSE Some(Append(opt[1], value))

\* Option<HashMap>::get_or_insert_with(HashMap::new).insert(k, value): the map
\* is a set of <<key, value>> with one value per key.
InsertTag(opt, k, value) ==
    LET old == IF opt = None THEN {} ELSE opt[1]
    IN Some({e \in old : e[1] # k} \cup {<<k, value>>})

\* The fields of Params by the way from_path reads their value.
TextFields ==
    {"codec", "bandpass", "echo", "chorus", "flanger", "phaser", "tremolo",
     "compressor", "noise_reduction"}
I32Fields == {"sample_rate", "channels", "bit_rate", "bit_depth", "compression_level"}
F64Fields ==
    {"quality", "start_time", "duration", "speed", "volume", "normalize_level",
     "lowpass", "highpass", "bass", "treble", "fade_in", "fade_out", "cross_fade"}
BoolFields == {"reverse", "normalize"}

\* One arm of the match in Params::from_path.
SetField(params, name, value) ==
    IF Len(name) = 1 /\ name[1] = "format"
    THEN [params EXCEPT !.format = Some(ParseFormat(value))]
    ELSE IF Len(name) = 1 /\ name[1] \in TextFields
    THEN [params EXCEPT ![name[1]] = Some(value)]
    ELSE IF Len(name) = 1 /\ name[1] \in I32Fields
    THEN [params EXCEPT ![name[1]] = ParseI32(value)]
    ELSE IF Len(name) = 1 /\ name[1] \in F64Fields
    THEN [params EXCEPT ![name[1]] = ParseF64(value)]
    ELSE IF Len(name) = 1 /\ name[1] \in BoolFields
    THEN [params EXCEPT ![name[1]] = Some(ParseBool(value))]
    ELSE IF StartsWith(name, <<"tag_">>)
    THEN [params EXCEPT !.tags = InsertTag(@, TrimStartMatches(name, <<"tag_">>), value)]
    ELSE IF StartsWith(name, <<"filter_">>)
    THEN [params EXCEPT !.custom_filters = PushTo(@, value)]
    ELSE IF StartsWith(name, <<"option_">>)
    THEN [params EXCEPT !.custom_options = PushTo(@, value)]
    ELSE params

\* for (key, value) in query { ... }: query is given in its iteration order.
RECURSIVE FromQuery(_, _)
FromQuery(params, query) ==
    IF query = <<>> THEN params
    ELSE FromQuery(SetField(params, Head(query)[1], Head(query)[2]), Tail(query))

\* Params::from_path: Err when the path has no last segment.
FromPath(path, query) ==
    LET last == LastPiece(Split(path, "/"))
    IN IF last = None THEN None
       ELSE Some(FromQuery([DefaultParams EXCEPT !.key = last[1]], query))

\* The orders in which a HashMap holding the entries S can be iterated.
Orders(S) ==
    {q \in [1..Cardinality(S) -> S] : \A i, j \in 1..Cardinality(S) : q[i] = q[j] => i = j}

\* bool::to_string
BoolToString(b) == IF b THEN "true" ELSE "false"

\* Params::to_query: the HashMap of name -> values, one entry per present field.
ToQuery(p) ==
    (IF p.format = None THEN {}
     ELSE {<<<<"format">>, <<IF p.format[1] = "" THEN <<>> ELSE <<p.format[1]>>>>>>})
    \cup {<<<<f>>, <<p[f][1]>>>> : f \in {f \in TextFields : p[f] # None}}
    \cup {<<<<f>>, <<<<p[f][1]>>>>>> : f \in {f \in I32Fields \cup F64Fields : p[f] # None}}
    \cup {<<<<f>>, <<<<BoolToString(p[f][1])>>>>>> : f \in {f \in BoolFields : p[f] # None}}
    \cup (IF p.custom_filters = None THEN {}
          ELSE {<<<<"custom_filters">>, p.custom_filters[1]>>})
    \cup (IF p.custom_options = None THEN {}
          ELSE {<<<<"custom_options">>, p.custom_options[1]>>})
    \cup (IF p.tags = None THEN {}
          ELSE {<<<<"tag_">> \o e[1], <<e[2]>>>> : e \in p.tags[1]})

\* "{k}={urlencoding::encode(val)}" for every value of one entry, joined by "&".
RECURSIVE EntryText(_, _)
EntryText(name, values) ==
    IF values = <<>> THEN <<>>
    ELSE name \o <<"=">> \o UrlEncode(Head(values))
         \o (IF Tail(values) = <<>> THEN <<>> ELSE <<"&">> \o EntryText(name, Tail(values)))

\* The entries of `order` that produce text, joined by "&".
RECURSIVE QueryText(_)
QueryText(order) ==
    IF order = <<>> THEN <<>>
    ELSE LET head == EntryText(Head(order)[1], Head(order)[2])
             rest == QueryText(Tail(order))
         IN IF head = <<>> THEN rest
            ELSE IF rest = <<>> THEN head ELSE head \o <<"&">> \o rest

\* impl Display for Params: "{key}?{query}", the query in the iteration order
\* of the map to_query built.
Display(p, order) == p.key \o <<"?">> \o QueryText(order)

\* The texts to_string can return for p.
Displays(p) == {Display(p, order) : order \in Orders(ToQuery(p))}

\* One "name=value" piece of form_urlencoded::parse: split at the first "=".
ParsePiece(piece) ==
    IF \E i \in 1..Len(piece) : piece[i] = "="
    THEN LET i == CHOOSE i \in 1..Len(piece) :
                      piece[i] = "=" /\ \A j \in 1..(i - 1) : piece[j] # "="
         IN <<UrlDecode(SubSeq(piece, 1, i - 1)), UrlDecode(SubSeq(piece, i + 1, Len(piece)))>>
    ELSE <<UrlDecode(piece), <<>>>>

\* form_urlencoded::parse: the pairs of the non-empty pieces between "&".
ParseQuery(text) ==
    LET pieces == Split(text, "&")
        kept == SelectSeq(pieces, LAMBDA x : x # <<>>)
    IN [i \in 1..Len(kept) |-> ParsePiece(kept[i])]

\* .collect::<HashMap<String, String>>(): the last pair of a name wins.
Collect(pairs) ==
    {pairs[i] : i \in {i \in 1..Len(pairs) :
                          \A j \in (i + 1)..Len(pairs) : pairs[j][1] # pairs[i][1]}}

\* impl FromStr for Params: the results from_str can return for s, one per
\* iteration order of the collected query.
FromStr(s) ==
    LET parts == Split(s, "?")
        path == TrimStartMatches(parts[1], <<"/">>)
        path_components == Split(path, "/")
        audio == path_components[Len(path_components)]
    IN IF Len(parts) <= 1
       THEN {FromPath(audio, <<>>)}
       ELSE {FromPath(audio, q) : q \in Orders(Collect(ParseQuery(parts[2])))}

\* A key text split at the places the pipeline looks at (see PFile, PUrl).
KeyParts(text) ==
    LET lead == IF StartsWith(text, <<"/", "meta">>) THEN "/meta"
                ELSE IF StartsWith(text, <<"http:", "/", "/">>) THEN "http://"
                ELSE IF StartsWith(text, <<"https:", "/", "/">>) THEN "https://"
                ELSE ""
        rest == CASE lead = "/meta" -> SubSeq(text, 3, Len(text))
                  [] lead = "" -> text
                  [] OTHER -> SubSeq(text, 4, Len(text))
        dots == {i \in 1..Len(rest) : rest[i] = "." /\ \A j \in i..Len(rest) : rest[j] # "/"}
        dot == IF dots = {} THEN Len(rest) + 1
               ELSE CHOOSE i \in dots : \A j \in dots : j <= i
    IN [lead |-> lead, stem |-> SubSeq(rest, 1, dot - 1), ext |-> SubSeq(rest, dot, Len(rest))]

\* impl FromRequestParts for Params: the routing prefixes are trimmed from the
\* URI path and the query is collected into a HashMap; the results the
\* extractor can return, None standing for the 400 rejection.
FromRequestParts(uriPath, uriQuery) ==
    LET path == TrimStartMatches(TrimStartMatches(uriPath, <<"/", "params">>),
                                 <<"/", "meta">>)
    IN {FromPath(path, q) : q \in Orders(Collect(ParseQuery(uriQuery)))}

(***************************************************************************)
(* Calls of the codec: one input, then the functions applied to it         *)
(***************************************************************************)
MaxPathLen == 4        \* longest path, in tokens
MaxQueryLen == 2       \* most name=value pairs in a query

PathTokens == {"/", "a", "meta"}
RECURSIVE TextsUpTo(_, _)
TextsUpTo(tokens, n) ==
    IF n = 0 THEN {<<>>}
    ELSE LET shorter == TextsUpTo(tokens, n - 1)
         IN shorter \cup {Append(t, x) : t \in shorter, x \in tokens}
Paths == TextsUpTo(PathTokens, MaxPathLen)

QueryPairs ==
    {<<<<"format">>, <<"wav">>>>, <<<<"volume">>, <<"0.8">>>>,
     <<<<"tag_", "t">>, <<"x">>>>, <<<<"filter_", "1">>, <<"x", "&", "y">>>>,
     <<<<"filter_", "2">>, <<"z">>>>, <<<<"option_", "1">>, <<"o">>>>}
Queries == TextsUpTo(QueryPairs, MaxQueryLen)

\* The query string of a URL carrying the pairs in the given order.
RawQuery(pairs) == QueryText([i \in 1..Len(pairs) |-> <<pairs[i][1], <<pairs[i][2]>>>>])

NoCall ==
    [op |-> "input", path |-> <<>>, query |-> <<>>, params |-> None, text |-> None,
     again |-> None, prefix |-> ""]

\* Params::from_path(path, query), the query map iterated in some order.
CallFromPath ==
    /\ call.op = "input"
    /\ \E q \in Orders(Collect(call.query)) :
        call' = [call EXCEPT !.op = "from_path", !.params = FromPath(call.path, q)]
    /\ UNCHANGED <<procVars, storeVars, req, arrivals, fsop>>

\* Params::from_str("{path}?{query}"), or of the bare path when there is no query.
CallFromStr ==
    /\ call.op = "input"
    /\ LET s == IF call.query = <<>> THEN call.path
                ELSE call.path \o <<"?">> \o RawQuery(call.query)
       IN \E res \in FromStr(s) :
            call' = [call EXCEPT !.op = "from_str", !.text = Some(s), !.params = res]
    /\ UNCHANGED <<procVars, storeVars, req, arrivals, fsop>>

\* params.to_string() of a parsed Params.
CallToString ==
    /\ call.op \in {"from_path", "from_str"}
    /\ call.params # None
    /\ \E text \in Displays(call.params[1]) :
        call' = [call EXCEPT !.op = "to_string", !.text = Some(text)]
    /\ UNCHANGED <<procVars, storeVars, req, arrivals, fsop>>

\* Params::from_str of the serialization.
CallReparse ==
    /\ call.op = "to_string"
    /\ \E res \in FromStr(call.text[1]) :
        call' = [call EXCEPT !.op = "reparsed", !.again = res]
    /\ UNCHANGED <<procVars, storeVars, req, arrivals, fsop>>

\* A request for the URI "{path}?{query}" enters cache_middleware: the
\* extractor builds Params and the middleware picks the cache key prefix.
CallExtract ==
    /\ call.op = "input"
    /\ \E res \in FromRequestParts(call.path, RawQuery(call.query)) :
        call' = [call EXCEPT !.op = "extract", !.params = res,
                             !.prefix = IF res = None THEN ""
                                        ELSE CacheKeyPrefix([key |-> KeyParts(res[1].key)])]
    /\ UNCHANGED <<procVars, storeVars, req, arrivals, fsop>>

InitParams ==
    /\ ProcessorNew(1)
    /\ ppc = [c \in Callers |-> "idle"]
    /\ pHasPermit = [c \in Callers |-> FALSE]
    /\ pTempDir = [c \in Callers |-> FALSE]
    /\ pRet = [c \in Callers |-> "none"]
    /\ InitStores
    /\ storage = [k \in StorageKeys |-> NoFile]
    /\ req = [r \in Reqs |-> IdleReq]
    /\ arrivals = 0
    /\ fsop = <<>>
    /\ \E path \in Paths, query \in Queries :
        call = [NoCall EXCEPT !.path = path, !.query = query]

NextParams ==
    \/ CallFromPath
    \/ CallFromStr
    \/ CallToString
    \/ CallReparse
    \/ CallExtract

SpecParams == InitParams /\ [][NextParams]_vars

(***************************************************************************)
(* Transcoder arguments of a Params (cyberpunkpath/params.rs)              *)
(*                                                                         *)
(* An argument is a text; the argument vector is a sequence of texts.      *)
(***************************************************************************)

\* format!("{:.N}", x) of the numbers of Decimals.
Fixed(x, digits) ==
    CASE x = "0.8" -> (CASE digits = 1 -> "0.8" [] digits = 2 -> "0.80" [] OTHER -> "0.800")
      [] x = "1" -> (CASE digits = 1 -> "1.0" [] digits = 2 -> "1.00" [] OTHER -> "1.000")
      [] x = "2" -> (CASE digits = 1 -> "2.0" [] digits = 2 -> "2.00" [] OTHER -> "2.000")
      [] x = "-16" -> (CASE digits = 1 -> "-16.0" [] digits = 2 -> "-16.00"
                         [] OTHER -> "-16.000")

\* impl Display for AudioFormat: the extension, empty for Unknown.
FormatText(format) == IF format = "" THEN <<>> ELSE <<format>>

\* One `if let Some(..)` block of collect_filters: the filters it pushes.
FilterOf(p, field) ==
    CASE field = "speed" ->
             IF p.speed # None /\ p.speed[1] # "1"
             THEN << <<"atempo=", Fixed(p.speed[1], 3)>> >> ELSE <<>>
      [] field = "reverse" ->
             IF p.reverse = Some(TRUE) THEN << <<"areverse">> >> ELSE <<>>
      [] field = "volume" ->
             IF p.volume # None /\ p.volume[1] # "1"
             THEN << <<"volume=", Fixed(p.volume[1], 2)>> >> ELSE <<>>
      [] field = "normalize" ->
             IF p.normalize = Some(TRUE)
             THEN LET level == IF p.normalize_level = None THEN "-16"
                               ELSE p.normalize_level[1]
                  IN << <<"loudnorm=I=", Fixed(level, 1)>> >>
             ELSE <<>>
      [] field = "lowpass" ->
             IF p.lowpass # None THEN << <<"lowpass=f=", Fixed(p.lowpass[1], 1)>> >> ELSE <<>>
      [] field = "highpass" ->
             IF p.highpass # None THEN << <<"highpass=f=", Fixed(p.highpass[1], 1)>> >>
             ELSE <<>>
      [] field = "bandpass" ->
             IF p.bandpass # None THEN << <<"bandpass=">> \o p.bandpass[1] >> ELSE <<>>
      [] field = "bass" ->
             IF p.bass # None THEN << <<"bass=g=", Fixed(p.bass[1], 1)>> >> ELSE <<>>
      [] field = "treble" ->
             IF p.treble # None THEN << <<"treble=g=", Fixed(p.treble[1], 1)>> >> ELSE <<>>
      [] field = "echo" ->
             IF p.echo # None THEN << <<"aecho=">> \o p.echo[1] >> ELSE <<>>
      [] field = "chorus" ->
             IF p.chorus # None THEN << <<"chorus=">> \o p.chorus[1] >> ELSE <<>>
      [] field = "flanger" ->
             IF p.flanger # None THEN << <<"flanger=">> \o p.flanger[1] >> ELSE <<>>
      [] field = "phaser" ->
             IF p.phaser # None THEN << <<"aphaser=">> \o p.phaser[1] >> ELSE <<>>
      [] field = "tremolo" ->
             IF p.tremolo # None THEN << <<"tremolo=">> \o p.tremolo[1] >> ELSE <<>>
      [] field = "compressor" ->
             IF p.compressor # None THEN << <<"acompressor=">> \o p.compressor[1] >>
             ELSE <<>>
      [] field = "noise_reduction" ->
             IF p.noise_reduction # None THEN << <<"anlmdn=">> \o p.noise_reduction[1] >>
             ELSE <<>>
      [] field = "fade_in" ->
             IF p.fade_in # None THEN << <<"afade=t=in:d=", Fixed(p.fade_in[1], 3)>> >>
             ELSE <<>>
      [] field = "fade_out" ->
             IF p.fade_out # None THEN << <<"afade=t=out:d=", Fixed(p.fade_out[1], 3)>> >>
             ELSE <<>>
      [] field = "cross_fade" ->
             IF p.cross_fade # None THEN << <<"acrossfade=d=", Fixed(p.cross_fade[1], 3)>> >>
             ELSE <<>>
      [] field = "custom_filters" ->
             IF p.custom_filters # None THEN p.custom_filters[1] ELSE <<>>

\* The blocks with the volume filter collected first.
FilterBlocksVolumeFirst ==
    <<"volume", "speed", "reverse", "normalize", "lowpass", "highpass", "bandpass",
      "bass", "treble", "echo", "chorus", "flanger", "phaser", "tremolo", "compressor",
      "noise_reduction", "fade_in", "fade_out", "cross_fade", "custom_filters">>

\* The blocks of collect_filters in the order of the code.
FilterBlocks ==
    <<"speed", "reverse", "volume", "normalize", "lowpass", "highpass", "bandpass",
      "bass", "treble", "echo", "chorus", "flanger", "phaser", "tremolo", "compressor",
      "noise_reduction", "fade_in", "fade_out", "cross_fade", "custom_filters">>

\* The concatenation of a sequence of sequences.
RECURSIVE Flatten(_)
Flatten(seqs) == IF seqs = <<>> THEN <<>> ELSE Head(seqs) \o Flatten(Tail(seqs))

\* Params::collect_filters
CollectFilters(p) == Flatten([i \in 1..Len(FilterBlocks) |-> FilterOf(p, FilterBlocks[i])])

\* [String]::join(",")
RECURSIVE Join(_)
Join(texts) ==
    IF texts = <<>> THEN <<>>
    ELSE IF Len(texts) = 1 THEN texts[1]
    ELSE texts[1] \o <<",">> \o Join(Tail(texts))

\* One `if let Some(..)` block of to_ffmpeg_args: the arguments it appends.
ArgsOf(p, block) ==
    CASE block = "format" ->
             IF p.format # None THEN << <<"-f">>, FormatText(p.format[1]) >> ELSE <<>>
      [] block = "codec" ->
             IF p.codec # None THEN << <<"-c:a">>, p.codec[1] >> ELSE <<>>
      [] block = "sample_rate" ->
             IF p.sample_rate # None THEN << <<"-ar">>, <<p.sample_rate[1]>> >> ELSE <<>>
      [] block = "channels" ->
             IF p.channels # None THEN << <<"-ac">>, <<p.channels[1]>> >> ELSE <<>>
      [] block = "bit_rate" ->
             IF p.bit_rate # None THEN << <<"-b:a">>, <<p.bit_rate[1], "k">> >> ELSE <<>>
      [] block = "quality" ->
             IF p.quality # None THEN << <<"-q:a">>, <<Fixed(p.quality[1], 1)>> >> ELSE <<>>
      [] block = "compression_level" ->
             IF p.compression_level # None
             THEN << <<"-compression_level">>, <<p.compression_level[1]>> >> ELSE <<>>
      [] block = "start_time" ->
             IF p.start_time # None THEN << <<"-ss">>, <<Fixed(p.start_time[1], 3)>> >>
             ELSE <<>>
      [] block = "duration" ->
             IF p.duration # None THEN << <<"-t">>, <<Fixed(p.duration[1], 3)>> >> ELSE <<>>
      [] block = "filters" ->
             IF CollectFilters(p) # <<>>
             THEN << <<"-filter:a">>, Join(CollectFilters(p)) >> ELSE <<>>
      [] block = "custom_options" ->
             IF p.custom_options # None THEN p.custom_options[1] ELSE <<>>

\* The blocks with the sample rate appended after the channels.
ArgBlocksRateAfterChannels ==
    <<"format", "codec", "channels", "sample_rate", "bit_rate", "quality",
      "compression_level", "start_time", "duration", "filters", "custom_options">>

\* The blocks of to_ffmpeg_args in the order of the code.
ArgBlocks ==
    <<"format", "codec", "sample_rate", "channels", "bit_rate", "quality",
      "compression_level", "start_time", "duration", "filters", "custom_options">>

\* Params::to_ffmpeg_args
ToFfmpegArgs(p) == Flatten([i \in 1..Len(ArgBlocks) |-> ArgsOf(p, ArgBlocks[i])])

(***************************************************************************)
(* Calls on the fields: a query map parsed by from_path, or a Params       *)
(* written as a struct literal, then turned into transcoder arguments      *)
(***************************************************************************)
MaxFields == 2         \* most entries of a query map

\* Query entries: well-formed and malformed values of every kind of field,
\* names with the three prefixes, names from_path does not know.
FieldPairs ==
    {<<<<"format">>, v>> : v \in {<<"wav">>, <<"WAV">>, <<"aac">>, <<>>}}
    \cup {<<<<f>>, v>> : f \in I32Fields, v \in {<<"2">>, <<"0.8">>}}
    \cup {<<<<"channels">>, <<"+2">>>>, <<<<"sample_rate">>, <<"44100">>>>}
    \cup {<<<<f>>, v>> : f \in F64Fields, v \in {<<"2">>, <<"x">>}}
    \cup {<<<<f>>, v>> : f \in {"speed", "volume"}, v \in {<<"1.0">>, <<"0.8">>}}
    \cup {<<<<f>>, v>> : f \in BoolFields,
                         v \in {<<"true">>, <<"1">>, <<"false">>, <<"yes">>, <<>>}}
    \cup {<<<<f>>, <<"v", "=", "1">>>> : f \in TextFields}
    \cup {<<<<"tag_", "t">>, <<"x">>>>, <<<<"filter_", "1">>, <<"f1">>>>,
          <<<<"filter_", "2">>, <<"f2">>>>, <<<<"option_", "1">>, <<"-vn">>>>,
          <<<<"option_", "2">>, <<"-sn">>>>, <<<<"foo">>, <<"2">>>>,
          <<<<"Format">>, <<"wav">>>>, <<<<"filters">>, <<"f1">>>>}

\* The entries in some fixed enumeration.
RECURSIVE SetToSeq(_)
SetToSeq(S) ==
    IF S = {} THEN <<>>
    ELSE LET x == CHOOSE x \in S : TRUE IN <<x>> \o SetToSeq(S \ {x})
FieldPairSeq == SetToSeq(FieldPairs)

\* The sets of at most k of the indices 1..n, each built by adding an index
\* above its largest.
RECURSIVE IndexSets(_, _)
IndexSets(n, k) ==
    IF k = 0 THEN {{}}
    ELSE LET smaller == IndexSets(n, k - 1)
             Above(I) == IF I = {} THEN 1..n
                         ELSE ((CHOOSE i \in I : \A j \in I : j <= i) + 1)..n
         IN smaller \cup UNION {{I \cup {i} : i \in Above(I)} : I \in smaller}

\* The HashMaps with at most n of the entries of `pairs`, one per name.
MapsUpTo(pairs, n) ==
    {{pairs[i] : i \in I} :
        I \in {I \in IndexSets(Len(pairs), n) :
                  \A i, j \in I : pairs[i][1] = pairs[j][1] => i = j}}
FieldPaths == {<<>>, <<"x", "/", "a", ".", "mp3">>}

\* Params { .. } literals: the one of test_to_ffmpeg_args and one with every
\* field set.
TestParams ==
    [DefaultParams EXCEPT !.key = <<"test", ".", "mp3">>, !.format = Some("wav"),
                          !.codec = Some(<<"pcm_s16le">>), !.sample_rate = Some("44100"),
                          !.channels = Some("2")]
FullParams ==
    [f \in DOMAIN DefaultParams |->
        CASE f = "key" -> <<"test", ".", "mp3">>
          [] f = "format" -> Some("flac")
          [] f \in TextFields -> Some(<<f, "_v">>)
          [] f \in I32Fields -> Some("2")
          [] f \in F64Fields -> Some("0.8")
          [] f \in BoolFields -> Some(TRUE)
          [] f = "custom_filters" -> Some(<< <<"f1">>, <<"f2">> >>)
          [] f = "custom_options" -> Some(<< <<"-vn">>, <<"-sn">> >>)
          [] f = "tags" -> Some({<<<<"t">>, <<"x">>>>})]
BuiltParams == {TestParams, FullParams}

NoFieldsCall ==
    [op |-> "input", path |-> <<>>, query |-> {}, params |-> None, args |-> None,
     additional_tags |-> {}, cmd |-> None]

\* The process-wide tags handed to process_audio, and the formats of its input.
AdditionalTags == {{}, {<<<<"t">>, <<"y">>>>, <<<<"host">>, <<"h">>>>}}
InputFormats == {"wav"}

\* cmd.args(["-metadata", &format!("{}={}", k, v)]) for the entries of a map in
\* the given iteration order.
RECURSIVE MetadataArgs(_)
MetadataArgs(order) ==
    IF order = <<>> THEN <<>>
    ELSE << <<"-metadata">>, Head(order)[1] \o <<"=">> \o Head(order)[2] >>
         \o MetadataArgs(Tail(order))

\* The argument vector process_audio builds for the transcoder: input path,
\* -y, the tags of the request, the additional tags, the encoding arguments
\* and the output path.
TranscoderArgs(input_format, params, tags_order, additional_order) ==
    LET output_format == IF params.format = None THEN "mp3" ELSE params.format[1]
    IN << <<"-i">>, <<"in", ".">> \o FormatText(input_format), <<"-y">> >>
       \o MetadataArgs(tags_order)
       \o MetadataArgs(additional_order)
       \o ToFfmpegArgs(params)
       \o << <<"out", ".">> \o FormatText(output_format) >>

\* Params::from_path(path, query), the query map iterated in some order.
FieldsFromPath ==
    /\ call.op = "input"
    /\ \E q \in Orders(call.query) :
        call' = [call EXCEPT !.op = "from_path", !.params = FromPath(call.path, q)]
    /\ UNCHANGED <<procVars, storeVars, req, arrivals, fsop>>

\* params.to_ffmpeg_args() of a parsed or built Params.
FieldsToFfmpegArgs ==
    /\ call.op \in {"from_path", "built"}
    /\ call.params # None
    /\ call' = [call EXCEPT !.op = "to_ffmpeg_args",
                            !.args = Some(ToFfmpegArgs(call.params[1]))]
    /\ UNCHANGED <<procVars, storeVars, req, arrivals, fsop>>

\* process_audio(input, params, temp_dir, additional_tags) up to the command
\* it runs, each map iterated in some order.
FieldsProcessAudio ==
    /\ call.op \in {"from_path", "built"}
    /\ call.params # None
    /\ \E input_format \in InputFormats, additional_tags \in AdditionalTags :
        \E tags_order \in Orders(IF call.params[1].tags = None THEN {}
                                  ELSE call.params[1].tags[1]),
           additional_order \in Orders(additional_tags) :
            call' = [call EXCEPT !.op = "process_audio",
                                 !.additional_tags = additional_tags,
                                 !.cmd = Some(TranscoderArgs(input_format, call.params[1],
                                                             tags_order, additional_order))]
    /\ UNCHANGED <<procVars, storeVars, req, arrivals, fsop>>

InitFields ==
    /\ ProcessorNew(1)
    /\ ppc = [c \in Callers |-> "idle"]
    /\ pHasPermit = [c \in Callers |-> FALSE]
    /\ pTempDir = [c \in Callers |-> FALSE]
    /\ pRet = [c \in Callers |-> "none"]
    /\ InitStores
    /\ storage = [k \in StorageKeys |-> NoFile]
    /\ req = [r \in Reqs |-> IdleReq]
    /\ arrivals = 0
    /\ fsop = <<>>
    /\ \/ \E path \in FieldPaths, query \in MapsUpTo(FieldPairSeq, MaxFields) :
            call = [NoFieldsCall EXCEPT !.path = path, !.query = query]
       \/ \E p \in BuiltParams :
            call = [NoFieldsCall EXCEPT !.op = "built", !.params = Some(p)]

NextFields == FieldsFromPath \/ FieldsToFfmpegArgs \/ FieldsProcessAudio

SpecFields == InitFields /\ [][NextFields]_vars

(***************************************************************************)
(* Key normalization (cyberpunkpath/normalize.rs)                          *)
(*                                                                         *)
(* A string is a sequence of chars, a char its code point; as_bytes gives  *)
(* the UTF-8 bytes of the chars.                                           *)
(***************************************************************************)

\* The UTF-8 encoding of one char (up to three bytes).
Utf8(c) ==
    IF c < 128 THEN <<c>>
    ELSE IF c < 2048 THEN <<192 + (c \div 64), 128 + (c % 64)>>
    ELSE <<224 + (c \div 4096), 128 + ((c \div 64) % 64), 128 + (c % 64)>>

\* str::as_bytes
AsBytes(s) == Flatten([i \in 1..Len(s) |-> Utf8(s[i])])

\* UPPER_HEX = "0123456789ABCDEF"
UPPER_HEX == <<48, 49, 50, 51, 52, 53, 54, 55, 56, 57, 65, 66, 67, 68, 69, 70>>

\* u8::is_ascii_alphanumeric
IsAsciiAlphanumeric(c) == c \in 48..57 \/ c \in 65..90 \/ c \in 97..122

\* SafeCharsType: Default, Custom(set of bytes), Noop.
SafeDefault == [kind |-> "Default", set |-> {}]
SafeCustom(set) == [kind |-> "Custom", set |-> set]
SafeNoop == [kind |-> "Noop", set |-> {}]

\* impl SafeChars for SafeCharsType: '/', '-', '_', '.', '~' are 47, 45, 95, 46, 126.
ShouldEscape(safe_chars, c) ==
    CASE safe_chars.kind = "Default" ->
             ~(IsAsciiAlphanumeric(c) \/ c = 47 \/ c = 45 \/ c = 95 \/ c = 46 \/ c = 126)
      [] safe_chars.kind = "Custom" ->
             ~(IsAsciiAlphanumeric(c) \/ c = 47 \/ c = 45 \/ c = 95 \/ c = 46 \/ c = 126
               \/ c \in safe_chars.set)
      [] safe_chars.kind = "Noop" -> FALSE

\* The body of the loop of escape for one byte: the chars pushed (`c as char`
\* is the char whose code point is the byte; ' ' is 32, '+' 43, '%' 37).
EscapeByte(c, safe_chars) ==
    IF ShouldEscape(safe_chars, c)
    THEN IF c = 32 THEN <<43>>
         ELSE <<37, UPPER_HEX[(c \div 16) + 1], UPPER_HEX[(c % 16) + 1]>>
    ELSE <<c>>

\* escape(s, should_escape)
Escape(s, safe_chars) ==
    LET bytes == AsBytes(s)
    IN Flatten([i \in 1..Len(bytes) |-> EscapeByte(bytes[i], safe_chars)])

\* str::replace("\r\n", ""): the non-overlapping matches from the left.
RECURSIVE ReplaceCrLf(_)
ReplaceCrLf(s) ==
    IF s = <<>> THEN <<>>
    ELSE IF Len(s) >= 2 /\ s[1] = 13 /\ s[2] = 10 THEN ReplaceCrLf(SubSeq(s, 3, Len(s)))
    ELSE <<s[1]>> \o ReplaceCrLf(Tail(s))

\* '\r', '\n', '\u{000B}', '\u{000C}', '\u{0085}', '\u{2028}', '\u{2029}'
LineBreaks == {13, 10, 11, 12, 133, 8232, 8233}

\* str::replace([chars], "")
ReplaceLineBreaks(s) == SelectSeq(s, LAMBDA c : c \notin LineBreaks)

\* str::trim_matches('/')
RECURSIVE TrimMatches(_)
TrimMatches(s) ==
    IF s # <<>> /\ s[1] = 47 THEN TrimMatches(Tail(s))
    ELSE IF s # <<>> /\ s[Len(s)] = 47 THEN TrimMatches(SubSeq(s, 1, Len(s) - 1))
    ELSE s

\* normalize(key, safe_chars)
Normalize(key, safe_chars) ==
    LET cleaned == TrimMatches(ReplaceLineBreaks(ReplaceCrLf(key)))
    IN Escape(cleaned, safe_chars)

MaxKeyLen == 3         \* longest key, in chars

\* 'a', '/', ' ', '+', '%', '!', LF, CR, U+00C5 (bytes C3 85), U+2028
KeyChars == {97, 47, 32, 43, 37, 33, 10, 13, 197, 8232}
NormKeys == TextsUpTo(KeyChars, MaxKeyLen)
SafeCharsTypes == {SafeDefault, SafeCustom({33}), SafeCustom({32}), SafeNoop}

\* normalize(key, safe_chars)
CallNormalize ==
    /\ call.op = "input"
    /\ call' = [call EXCEPT !.op = "normalize",
                            !.out = Some(Normalize(call.key, call.safe_chars))]
    /\ UNCHANGED <<procVars, storeVars, req, arrivals, fsop>>

\* normalize of the normalized key
CallNormalizeAgain ==
    /\ call.op = "normalize"
    /\ call' = [call EXCEPT !.op = "again",
                            !.again = Some(Normalize(call.out[1], call.safe_chars))]
    /\ UNCHANGED <<procVars, storeVars, req, arrivals, fsop>>

InitNormalize ==
    /\ ProcessorNew(1)
    /\ ppc = [c \in Callers |-> "idle"]
    /\ pHasPermit = [c \in Callers |-> FALSE]
    /\ pTempDir = [c \in Callers |-> FALSE]
    /\ pRet = [c \in Callers |-> "none"]
    /\ InitStores
    /\ storage = [k \in StorageKeys |-> NoFile]
    /\ req = [r \in Reqs |-> IdleReq]
    /\ arrivals = 0
    /\ fsop = <<>>
    /\ \E key \in NormKeys, safe_chars \in SafeCharsTypes :
        call = [op |-> "input", key |-> key, safe_chars |-> safe_chars,
                out |-> None, again |-> None]

NextNormalize == CallNormalize \/ CallNormalizeAgain

SpecNormalize == InitNormalize /\ [][NextNormalize]_vars

(***************************************************************************)
(* Result names (cyberpunkpath/hasher.rs), on the text of the key          *)
(***************************************************************************)

\* The scheme a key may start with, cut off once.
StripScheme(audio) ==
    IF StartsWith(audio, <<"https:", "/", "/">>) THEN SubSeq(audio, 4, Len(audio))
    ELSE IF StartsWith(audio, <<"http:", "/", "/">>) THEN SubSeq(audio, 4, Len(audio))
    ELSE audio

\* str::rfind(ch): Some(index of the last ch), None when there is none.
RFind(s, ch) ==
    LET at == {i \in 1..Len(s) : s[i] = ch}
    IN IF at = {} THEN None ELSE Some(CHOOSE i \in at : \A j \in at : j <= i)

\* suffix_result_storage_hasher with the extension of the key always kept.
SuffixResultKeepsExtension(p, path) ==
    LET audio == StripScheme(p.key)
        dot_idx == RFind(audio, ".")
        slash_idx == RFind(audio, "/")
    IN IF dot_idx # None /\ (slash_idx = None \/ slash_idx[1] < dot_idx[1])
       THEN [before |-> SubSeq(audio, 1, dot_idx[1] - 1), hash |-> Sha1Prefix(path),
             after |-> SubSeq(audio, dot_idx[1], Len(audio))]
       ELSE [before |-> audio, hash |-> Sha1Prefix(path), after |-> <<>>]

\* suffix_result_storage_hasher(p), `path` being the p.to_string() it took:
\* the text before the ".{hash}" it inserts, the hash, and the text after.
\* Params has no `meta`, so the ".json" extension is never chosen; the format
\* filter is p.format.
SuffixResultStorageHasher(p, path) ==
    LET audio == StripScheme(p.key)
        dot_idx == RFind(audio, ".")
        slash_idx == RFind(audio, "/")
    IN IF dot_idx # None /\ (slash_idx = None \/ slash_idx[1] < dot_idx[1])
       THEN [before |-> SubSeq(audio, 1, dot_idx[1] - 1), hash |-> Sha1Prefix(path),
             after |-> IF p.format # None THEN <<".">> \o FormatText(p.format[1])
                       ELSE SubSeq(audio, dot_idx[1], Len(audio))]
       ELSE [before |-> audio, hash |-> Sha1Prefix(path), after |-> <<>>]

\* Keys: an optional scheme, then a text of '/', '.' and names.
Schemes == {<<>>, <<"http:", "/", "/">>, <<"https:", "/", "/">>}
HashKeys == {scheme \o rest : scheme \in Schemes, rest \in TextsUpTo({"/", ".", "a"}, MaxPathLen)}
HashParams ==
    {[DefaultParams EXCEPT !.key = key, !.format = format, !.volume = volume] :
        key \in HashKeys, format \in {None, Some("wav"), Some("")},
        volume \in {None, Some("0.8")}}

\* suffix_result_storage_hasher(&params)
CallSuffixResult ==
    /\ call.op = "input"
    /\ \E path \in Displays(call.params) :
        call' = [call EXCEPT !.op = "suffix",
                             !.result = Some(SuffixResultStorageHasher(call.params, path))]
    /\ UNCHANGED <<procVars, storeVars, req, arrivals, fsop>>

InitHasher ==
    /\ ProcessorNew(1)
    /\ ppc = [c \in Callers |-> "idle"]
    /\ pHasPermit = [c \in Callers |-> FALSE]
    /\ pTempDir = [c \in Callers |-> FALSE]
    /\ pRet = [c \in Callers |-> "none"]
    /\ InitStores
    /\ storage = [k \in StorageKeys |-> NoFile]
    /\ req = [r \in Reqs |-> IdleReq]
    /\ arrivals = 0
    /\ fsop = <<>>
    /\ \E p \in HashParams : call = [op |-> "input", params |-> p, result |-> None]

NextHasher == CallSuffixResult

SpecHasher == InitHasher /\ [][NextHasher]_vars

(***************************************************************************)
(* Tag composer (tags.rs)                                                  *)
(*                                                                         *)
(* A tag name is a text; a tag value is its text and its length in bytes.  *)
(***************************************************************************)
MAX_TAG_VALUE_LENGTH == 256

\* The tokens all of whose chars satisfy char::is_alphanumeric or are '_';
\* "U+00E9" is that letter, "-" is a token that does not.
AlphanumericTokens ==
    {"artist", "processor", "timestamp", "host", "version", "invalid", "tag", "U+00E9"}

\* k.chars().all(|c| c.is_alphanumeric() || c == '_')
CharsAll(k) == \A i \in 1..Len(k) : k[i] \in AlphanumericTokens

\* HashMap::insert
TagInsert(tags, k, v) == {e \in tags : e[1] # k} \cup {<<k, v>>}

\* The default tags: processor, timestamp, host, version.
DefaultTags ==
    {<<<<"processor">>, [text |-> "Cyberpunk", len |-> 9]>>,
     <<<<"timestamp">>, [text |-> "now", len |-> 25]>>,
     <<<<"host">>, [text |-> "hostname", len |-> 8]>>,
     <<<<"version">>, [text |-> "VERSION", len |-> 5]>>}

TagsOk(tags) == [ok |-> TRUE, err |-> "", tags |-> tags]
TagsErr(err) == [ok |-> FALSE, err |-> err, tags |-> {}]

\* for (k, v) in custom_tags { .. }: the custom tags in their iteration order.
RECURSIVE AddCustomTags(_, _)
AddCustomTags(tags, order) ==
    IF order = <<>> THEN TagsOk(tags)
    ELSE LET k == Head(order)[1]
             v == Head(order)[2]
         IN IF ~CharsAll(k) THEN TagsErr("InvalidTagName")
            ELSE IF v.len > MAX_TAG_VALUE_LENGTH THEN TagsErr("InvalidTagValue")
            ELSE AddCustomTags(TagInsert(tags, k, v), Tail(order))

\* create_tags(custom_tags): the results it can return, one per iteration order.
CreateTags(custom_tags) == {AddCustomTags(DefaultTags, order) : order \in Orders(custom_tags)}

MaxTags == 2           \* most custom tags

TagNames ==
    {<<"artist">>, <<"processor">>, <<>>, <<"U+00E9">>, <<"invalid", "-", "tag">>}
TagValues ==
    {[text |-> "Test Artist", len |-> 11], [text |-> "a x 256", len |-> 256],
     [text |-> "a x 257", len |-> 257], [text |-> "U+00E9 x 129", len |-> 258]}
TagPairSeq == SetToSeq(TagNames \X TagValues)
\* create_tags(custom_tags)
CallCreateTags ==
    /\ call.op = "input"
    /\ \E result \in CreateTags(call.custom_tags) :
        call' = [call EXCEPT !.op = "create_tags", !.result = Some(result)]
    /\ UNCHANGED <<procVars, storeVars, req, arrivals, fsop>>

InitTags ==
    /\ ProcessorNew(1)
    /\ ppc = [c \in Callers |-> "idle"]
    /\ pHasPermit = [c \in Callers |-> FALSE]
    /\ pTempDir = [c \in Callers |-> FALSE]
    /\ pRet = [c \in Callers |-> "none"]
    /\ InitStores
    /\ storage = [k \in StorageKeys |-> NoFile]
    /\ req = [r \in Reqs |-> IdleReq]
    /\ arrivals = 0
    /\ fsop = <<>>
    /\ \E custom_tags \in MapsUpTo(TagPairSeq, MaxTags) :
        call = [op |-> "input", custom_tags |-> custom_tags, result |-> None]

NextTags == CallCreateTags

SpecTags == InitTags /\ [][NextTags]_vars

(***************************************************************************)
(* Filesystem storage (storage/file.rs)                                    *)
(*                                                                         *)
(* The directory base_dir/path_prefix and what lies below it: `dirs` is    *)
(* the set of directories and `files` the content of the regular files,    *)
(* each named by its path, the sequence of names below the directory       *)
(* (<<>> is the directory itself). base_dir exists. No key of the model    *)
(* has a "." name, and none climbs above base_dir/path_prefix.             *)
(***************************************************************************)
DotDot == <<46, 46>>
Front(s) == SubSeq(s, 1, Len(s) - 1)
Up(path) == IF path = <<>> THEN <<>> ELSE Front(path)

IoOk(fs) == [err |-> "", fs |-> fs]
IoErr(kind, fs) == [err |-> kind, fs |-> fs]

\* Path resolution by the kernel: from directory `cur` along `names`, each of
\* which has to lead to a directory; an empty name (between two '/') is skipped.
RECURSIVE WalkDirs(_, _, _)
WalkDirs(fs, cur, names) ==
    IF cur \notin fs.dirs
    THEN [err |-> IF cur \in DOMAIN fs.files THEN "NotADirectory" ELSE "NotFound",
          path |-> cur]
    ELSE IF names = <<>> THEN [err |-> "", path |-> cur]
    ELSE LET n == Head(names)
             step == IF n = <<>> THEN cur
                     ELSE IF n = DotDot THEN Up(cur) ELSE Append(cur, n)
         IN WalkDirs(fs, step, Tail(names))

\* The file system entry a path string names: the walk of all names but the
\* last, then the last name in the directory reached.
Lookup(fs, names) ==
    LET walk == WalkDirs(fs, <<>>, Front(names))
        last == names[Len(names)]
    IN IF walk.err # "" THEN walk
       ELSE IF last = <<>> \/ last = DotDot
       THEN [err |-> "IsADirectory", path |-> walk.path]
       ELSE [err |-> "", path |-> Append(walk.path, last)]

\* FileStorage::get_full_path: the names of normalize(key), split at '/'.
GetFullPath(key, safe_chars) == Split(Normalize(key, safe_chars), 47)

\* Path::components of the part below base_dir/path_prefix: empty names dropped.
Components(names) == SelectSeq(names, LAMBDA n : n # <<>>)

\* Path::is_dir
IsDir(fs, names) == WalkDirs(fs, <<>>, names).err = ""

\* mkdir(2) of the directory `names` below base_dir/path_prefix
Mkdir(fs, names) ==
    IF names = <<>>
    THEN IF <<>> \in fs.dirs THEN IoErr("AlreadyExists", fs)
         ELSE IoOk([fs EXCEPT !.dirs = @ \cup {<<>>}])
    ELSE LET at == Lookup(fs, names)
         IN IF at.err = "IsADirectory" THEN IoErr("AlreadyExists", fs)
            ELSE IF at.err # "" THEN IoErr(at.err, fs)
            ELSE IF at.path \in fs.dirs \/ at.path \in DOMAIN fs.files
            THEN IoErr("AlreadyExists", fs)
            ELSE IoOk([fs EXCEPT !.dirs = @ \cup {at.path}])

\* std::fs::create_dir_all(parent): mkdir; when that fails with NotFound the
\* parent is created first and mkdir is tried again; any other failure is Ok
\* when the path is a directory by now.
RECURSIVE CreateDirAll(_, _)
CreateDirAll(fs, names) ==
    LET first == Mkdir(fs, names)
    IN IF first.err = "" THEN first
       ELSE IF first.err # "NotFound"
       THEN IF IsDir(fs, names) THEN IoOk(fs) ELSE first
       ELSE LET made == CreateDirAll(fs, Front(names))
                second == Mkdir(made.fs, names)
            IN IF made.err # "" THEN made
               ELSE IF second.err = "" THEN second
               ELSE IF IsDir(made.fs, names) THEN IoOk(made.fs) ELSE second

\* FileStorage::put: the parent directories are created, the file is opened
\* with create and truncate, and the bytes are written.
FilePut(fs, key, safe_chars, bytes) ==
    LET names == GetFullPath(key, safe_chars)
        comps == Components(names)
        made == IF comps = <<>> THEN IoOk(fs) ELSE CreateDirAll(fs, Front(comps))
        at == Lookup(made.fs, names)
    IN IF made.err # "" THEN made
       ELSE IF at.err # "" THEN IoErr(at.err, made.fs)
       ELSE IF at.path \in made.fs.dirs THEN IoErr("IsADirectory", made.fs)
       ELSE IoOk([made.fs EXCEPT !.files =
                     [p \in DOMAIN @ \cup {at.path} |->
                         IF p = at.path THEN bytes ELSE @[p]]])

\* FileStorage::get: Ok(bytes) of the file, Err when it cannot be opened or read.
FileGet(fs, key, safe_chars) ==
    LET at == Lookup(fs, GetFullPath(key, safe_chars))
    IN IF at.err = "" /\ at.path \in DOMAIN fs.files
       THEN [err |-> "", bytes |-> fs.files[at.path]]
       ELSE [err |-> "Io", bytes |-> <<>>]

\* FileStorage::delete: tokio::fs::remove_file
FileDelete(fs, key, safe_chars) ==
    LET at == Lookup(fs, GetFullPath(key, safe_chars))
    IN IF at.err = "" /\ at.path \in DOMAIN fs.files
       THEN IoOk([fs EXCEPT !.files = [p \in DOMAIN @ \ {at.path} |-> @[p]]])
       ELSE IoErr("Io", fs)

\* The keys of the client: "a", "/a", "b", "a/b", "a//b", "a/../b"
ObjectKeys == {<<97>>, <<47, 97>>, <<98>>, <<97, 47, 98>>, <<97, 47, 47, 98>>,
               <<97, 47, 46, 46, 47, 98>>}
ObjectBytes == {<<1>>, <<2>>}

\* What a key-value map over normalized keys holds after the calls so far.
Recorded(key) == call.map[Normalize(key, SafeDefault)]

\* storage.put(key, blob)
FileStoragePut(key, bytes) ==
    LET res == FilePut(storage, key, SafeDefault, bytes)
        nk == Normalize(key, SafeDefault)
    IN /\ storage' = res.fs
       /\ call' = [op |-> "put", key |-> key, err |-> res.err, bytes |-> bytes,
                   held |-> Recorded(key),
                   fresh |-> WalkDirs(storage, <<>>,
                                      Front(Components(GetFullPath(key, SafeDefault)))).err
                             = "NotFound",
                   map |-> IF res.err = "" THEN [call.map EXCEPT ![nk] = Some(bytes)]
                                           ELSE call.map]
       /\ UNCHANGED <<procVars, cacheData, cacheMeta, now, req, arrivals, fsop>>

\* storage.get(key)
FileStorageGet(key) ==
    LET res == FileGet(storage, key, SafeDefault)
    IN /\ call' = [op |-> "get", key |-> key, err |-> res.err, bytes |-> res.bytes,
                   held |-> Recorded(key), fresh |-> FALSE, map |-> call.map]
       /\ UNCHANGED <<procVars, storeVars, req, arrivals, fsop>>

\* storage.delete(key)
FileStorageDelete(key) ==
    LET res == FileDelete(storage, key, SafeDefault)
        nk == Normalize(key, SafeDefault)
    IN /\ storage' = res.fs
       /\ call' = [op |-> "delete", key |-> key, err |-> res.err, bytes |-> <<>>,
                   held |-> Recorded(key), fresh |-> FALSE,
                   map |-> IF res.err = "" THEN [call.map EXCEPT ![nk] = None]
                                           ELSE call.map]
       /\ UNCHANGED <<procVars, cacheData, cacheMeta, now, req, arrivals, fsop>>

\* An empty base_dir: path_prefix is created by the first put.
InitFileStorage ==
    /\ ProcessorNew(1)
    /\ ppc = [c \in Callers |-> "idle"]
    /\ pHasPermit = [c \in Callers |-> FALSE]
    /\ pTempDir = [c \in Callers |-> FALSE]
    /\ pRet = [c \in Callers |-> "none"]
    /\ InitStores
    /\ storage = [dirs |-> {}, files |-> [p \in {} |-> <<>>]]
    /\ req = [r \in Reqs |-> IdleReq]
    /\ arrivals = 0
    /\ fsop = <<>>
    /\ call = [op |-> "new", key |-> <<>>, err |-> "", bytes |-> <<>>, held |-> None,
               fresh |-> FALSE,
               map |-> [nk \in {Normalize(k, SafeDefault) : k \in ObjectKeys} |-> None]]

NextFileStorage ==
    \E key \in ObjectKeys :
        \/ \E bytes \in ObjectBytes : FileStoragePut(key, bytes)
        \/ FileStorageGet(key)
        \/ FileStorageDelete(key)

SpecFileStorage == InitFileStorage /\ [][NextFileStorage]_vars

(***************************************************************************)
(* AudioFormat and its string form (blob.rs), char by char                 *)
(***************************************************************************)
SupportedFormats == {"Mp3", "Wav", "Flac", "Ogg", "M4a", "Opus"}

\* AudioFormat::extension, which Display writes: "mp3", "wav", "flac", "ogg",
\* "m4a", "opus", and "" for Unknown.
Extension(format) ==
    CASE format = "Mp3" -> <<109, 112, 51>>
      [] format = "Wav" -> <<119, 97, 118>>
      [] format = "Flac" -> <<102, 108, 97, 99>>
      [] format = "Ogg" -> <<111, 103, 103>>
      [] format = "M4a" -> <<109, 52, 97>>
      [] format = "Opus" -> <<111, 112, 117, 115>>
      [] format = "Unknown" -> <<>>

\* str::to_lowercase on the chars of the model: 'A'..'Z' become 'a'..'z'.
ToLowercaseChars(s) == [i \in 1..Len(s) |-> IF s[i] \in 65..90 THEN s[i] + 32 ELSE s[i]]

\* A mutant of AudioFormatParse: the string is matched as it is written.
AudioFormatParseExact(s) ==
    IF \E f \in SupportedFormats : Extension(f) = s
    THEN [ok |-> TRUE, format |-> CHOOSE f \in SupportedFormats : Extension(f) = s]
    ELSE IF s = <<>> THEN [ok |-> TRUE, format |-> "Unknown"]
    ELSE [ok |-> FALSE, format |-> "Unknown"]

\* impl FromStr for AudioFormat: Ok(format) or Err
AudioFormatParse(s) ==
    LET lower == ToLowercaseChars(s)
    IN IF \E f \in SupportedFormats : Extension(f) = lower
       THEN [ok |-> TRUE, format |-> CHOOSE f \in SupportedFormats : Extension(f) = lower]
       ELSE IF lower = <<>> THEN [ok |-> TRUE, format |-> "Unknown"]
       ELSE [ok |-> FALSE, format |-> "Unknown"]

\* The ways of writing a string in upper and lower case letters.
RECURSIVE Casings(_)
Casings(s) ==
    IF s = <<>> THEN {<<>>}
    ELSE {<<c>> \o t : c \in {s[1]} \cup (IF s[1] \in 97..122 THEN {s[1] - 32} ELSE {}),
                       t \in Casings(Tail(s))}

\* format.to_string()
FormatToString ==
    /\ call.op = "input"
    /\ call' = [call EXCEPT !.op = "to_string", !.text = Extension(call.format)]
    /\ UNCHANGED <<procVars, storeVars, req, arrivals, fsop>>

\* The text as a client writes it: in some casing, or another word ("aac").
FormatRewrite ==
    /\ call.op = "to_string"
    /\ \E written \in Casings(call.text) \cup {<<97, 97, 99>>} :
        call' = [call EXCEPT !.op = "written", !.text = written]
    /\ UNCHANGED <<procVars, storeVars, req, arrivals, fsop>>

\* text.parse::<AudioFormat>()
FormatParse ==
    /\ call.op = "written"
    /\ call' = [call EXCEPT !.op = "parse", !.parsed = AudioFormatParse(call.text)]
    /\ UNCHANGED <<procVars, storeVars, req, arrivals, fsop>>

InitFormat ==
    /\ ProcessorNew(1)
    /\ ppc = [c \in Callers |-> "idle"]
    /\ pHasPermit = [c \in Callers |-> FALSE]
    /\ pTempDir = [c \in Callers |-> FALSE]
    /\ pRet = [c \in Callers |-> "none"]
    /\ InitStores
    /\ storage = [k \in StorageKeys |-> NoFile]
    /\ req = [r \in Reqs |-> IdleReq]
    /\ arrivals = 0
    /\ fsop = <<>>
    /\ \E format \in SupportedFormats \cup {"Unknown"} :
        call = [op |-> "input", format |-> format, text |-> <<>>,
                parsed |-> [ok |-> FALSE, format |-> "Unknown"]]

NextFormat == FormatToString \/ FormatRewrite \/ FormatParse

SpecFormat == InitFormat /\ [][NextFormat]_vars

(***************************************************************************)
(* Waiting for the object store at startup (storage/s3.rs)                 *)
(***************************************************************************)
MaxRetries == 5        \* largest max_retries given to wait_for_minio
Delays == {0, 2}       \* the delays given to it, in seconds

\* for i in 0..max_retries: the next round begins, or the range is exhausted
\* and the function returns the error after the loop.
MinioLoop ==
    /\ call.pc = "for"
    /\ call' = IF call.i < call.max_retries
               THEN [call EXCEPT !.pc = "send"]
               ELSE [call EXCEPT !.pc = "returned", !.ret = "Err"]
    /\ UNCHANGED <<procVars, storeVars, req, arrivals, fsop>>

\* A mutant of MinioSend: every failed attempt is followed by a sleep.
MinioSendAlwaysSleeps ==
    /\ call.pc = "send"
    /\ \E ok \in BOOLEAN :
        call' = IF ok
                THEN [call EXCEPT !.pc = "returned", !.ret = "Ok",
                                  !.log = Append(@, "ok")]
                ELSE [call EXCEPT !.pc = "sleep", !.log = Append(@, "err")]
    /\ UNCHANGED <<procVars, storeVars, req, arrivals, fsop>>

\* client.list_buckets().send().await answers: Ok returns Ok(()), Err returns
\* the error when this was the last round and goes to sleep otherwise.
MinioSend ==
    /\ call.pc = "send"
    /\ \E ok \in BOOLEAN :
        call' = IF ok
                THEN [call EXCEPT !.pc = "returned", !.ret = "Ok",
                                  !.log = Append(@, "ok")]
                ELSE IF call.i = call.max_retries - 1
                THEN [call EXCEPT !.pc = "returned", !.ret = "Err",
                                  !.log = Append(@, "err")]
                ELSE [call EXCEPT !.pc = "sleep", !.log = Append(@, "err")]
    /\ UNCHANGED <<procVars, storeVars, req, arrivals, fsop>>

\* tokio::time::sleep(delay).await is over: the loop goes on with i + 1.
MinioSleep ==
    /\ call.pc = "sleep"
    /\ call' = [call EXCEPT !.pc = "for", !.i = @ + 1, !.slept = @ + call.delay,
                            !.log = Append(@, "sleep")]
    /\ UNCHANGED <<procVars, storeVars, req, arrivals, fsop>>

InitMinio ==
    /\ ProcessorNew(1)
    /\ ppc = [c \in Callers |-> "idle"]
    /\ pHasPermit = [c \in Callers |-> FALSE]
    /\ pTempDir = [c \in Callers |-> FALSE]
    /\ pRet = [c \in Callers |-> "none"]
    /\ InitStores
    /\ storage = [k \in StorageKeys |-> NoFile]
    /\ req = [r \in Reqs |-> IdleReq]
    /\ arrivals = 0
    /\ fsop = <<>>
    /\ \E max_retries \in 0..MaxRetries, delay \in Delays :
        call = [pc |-> "for", max_retries |-> max_retries, delay |-> delay, i |-> 0,
                slept |-> 0, ret |-> "none", log |-> <<>>]

NextMinio == MinioLoop \/ MinioSend \/ MinioSleep

\* Every request to the object store is answered or times out, and every
\* sleep ends.
SpecMinio == InitMinio /\ [][NextMinio]_vars /\ WF_vars(NextMinio)

(***************************************************************************)
(* The request pipeline with its file writes taken call by call            *)
(*                                                                         *)
(* FileStorage::put and FileSystemCache::set do not replace a file in one  *)
(* step: the file is opened with truncate, then written (storage/file.rs,  *)
(* tokio::fs::write in cache/fs.rs). Other tasks run between the two.      *)
(***************************************************************************)

\* A mutant of Overwrite: the bytes are added at the end of the file.
OverwriteAppending(old, bytes) == old \o bytes

\* write_all on a file just opened: the bytes go to offset 0 and replace what
\* is there; what another writer put beyond them stays.
Overwrite(old, bytes) == bytes \o SubSeq(old, Len(bytes) + 1, Len(old))

\* FileStorage::put up to the open: the object is created or truncated.
StoragePutOpen(r) ==
    /\ req[r].pc = "h_put"
    /\ \E ok \in BOOLEAN :
        /\ storage' = IF ok THEN [storage EXCEPT ![req[r].hkey] = Some(<<>>)] ELSE storage
        /\ req' = [req EXCEPT ![r] =
                      IF ok THEN [req[r] EXCEPT !.pc = "h_write"]
                      ELSE Done(req[r], 500, ErrorText, <<"put_err">>)]
    /\ UNCHANGED <<procVars, cacheData, cacheMeta, now, fsop, arrivals, call>>

\* FileStorage::put, file.write_all: Ok is the handler's 200 response with the
\* processed bytes, Err is 500 and leaves the file as it is.
StoragePutWrite(r) ==
    /\ req[r].pc = "h_write"
    /\ \E ok \in BOOLEAN :
        /\ storage' = IF ok
                      THEN [storage EXCEPT ![req[r].hkey] =
                               Some(Overwrite(@[1], req[r].blob))]
                      ELSE storage
        /\ req' = [req EXCEPT ![r] =
                      IF ok THEN InnerOk(req[r], req[r].blob, <<"put_ok">>)
                      ELSE Done(req[r], 500, ErrorText, <<"put_err">>)]
    /\ UNCHANGED <<procVars, cacheData, cacheMeta, now, fsop, arrivals, call>>

\* The response is returned after the set, whatever its outcome.
AfterSet(q, ok, data, meta) ==
    Done([q EXCEPT !.cached = <<data[q.ckey], meta[q.ckey], now>>],
         q.resp[1].status, q.resp[1].body, <<IF ok THEN "set_ok" ELSE "set_err">>)

\* A mutant of CacheSetOpen: a failed set fails the request.
CacheSetOpenStrict(r) ==
    /\ req[r].pc = "mw_set"
    /\ \E ok \in BOOLEAN :
        /\ cacheData' = IF ok THEN FsSetData(cacheData, req[r].ckey, <<>>) ELSE cacheData
        /\ req' = [req EXCEPT ![r] =
                      IF ok THEN [req[r] EXCEPT !.pc = "mw_write"]
                      ELSE Done(req[r], 500, ErrorText, <<"set_err">>)]
        /\ call' = [call EXCEPT !.sets = @ \cup {<<req[r].ckey, req[r].resp[1]>>}]
    /\ UNCHANGED <<procVars, storage, cacheMeta, now, fsop, arrivals>>

\* cache.set, tokio_fs::write of the data file up to the open: the file is
\* created or truncated. The call and its argument are noted in `call`.
CacheSetOpen(r) ==
    /\ req[r].pc = "mw_set"
    /\ \E ok \in BOOLEAN :
        /\ cacheData' = IF ok THEN FsSetData(cacheData, req[r].ckey, <<>>) ELSE cacheData
        /\ req' = [req EXCEPT ![r] =
                      IF ok THEN [req[r] EXCEPT !.pc = "mw_write"]
                      ELSE AfterSet(req[r], FALSE, cacheData', cacheMeta)]
        /\ call' = [call EXCEPT !.sets = @ \cup {<<req[r].ckey, req[r].resp[1]>>}]
    /\ UNCHANGED <<procVars, storage, cacheMeta, now, fsop, arrivals>>

\* cache.set, tokio_fs::write of the data file: the bytes are written.
CacheSetWrite(r) ==
    /\ req[r].pc = "mw_write"
    /\ \E ok \in BOOLEAN :
        LET k == req[r].ckey
        IN /\ cacheData' = IF ok
                           THEN FsSetData(cacheData, k,
                                          Overwrite(cacheData[k][1], req[r].resp[1].body))
                           ELSE cacheData
           /\ req' = [req EXCEPT ![r] =
                         IF ok THEN [req[r] EXCEPT !.pc = "mw_meta"]
                         ELSE AfterSet(req[r], FALSE, cacheData', cacheMeta)]
    /\ UNCHANGED <<procVars, storage, cacheMeta, now, fsop, arrivals, call>>

\* cache.set, tokio_fs::write of the .meta file up to the open. An empty .meta
\* file does not parse and means no expiry, as no file does: it is written as
\* no file.
CacheSetMetaOpen(r) ==
    /\ req[r].pc = "mw_meta"
    /\ \E ok \in BOOLEAN :
        /\ cacheMeta' = IF ok THEN FsDelete(cacheMeta, req[r].ckey) ELSE cacheMeta
        /\ req' = [req EXCEPT ![r] =
                      IF ok THEN [req[r] EXCEPT !.pc = "mw_meta_write"]
                      ELSE AfterSet(req[r], FALSE, cacheData, cacheMeta')]
    /\ UNCHANGED <<procVars, storage, cacheData, now, fsop, arrivals, call>>

\* cache.set, tokio_fs::write of the .meta file: the expiry second is written
\* and the middleware returns the response.
CacheSetMetaWrite(r) ==
    /\ req[r].pc = "mw_meta_write"
    /\ \E ok \in BOOLEAN :
        /\ cacheMeta' = IF ok THEN FsSetMeta(cacheMeta, req[r].ckey, Some(CACHE_TTL), now)
                              ELSE cacheMeta
        /\ req' = [req EXCEPT ![r] = AfterSet(req[r], ok, cacheData, cacheMeta')]
    /\ UNCHANGED <<procVars, storage, cacheData, now, fsop, arrivals, call>>

\* As Init; `call` notes the calls of cache.set.
InitWrites ==
    /\ ProcessorNew(1)
    /\ ppc = [c \in Callers |-> "idle"]
    /\ pHasPermit = [c \in Callers |-> FALSE]
    /\ pTempDir = [c \in Callers |-> FALSE]
    /\ pRet = [c \in Callers |-> "none"]
    /\ InitStores
    /\ req = [r \in Reqs |-> IdleReq]
    /\ arrivals = 0
    /\ fsop = <<>>
    /\ call = [sets |-> {}]
    /\ \E present \in BOOLEAN :
        storage = [k \in StorageKeys |->
                      IF present /\ k \in SourceKeys /\ k.stem[1] = ""
                      THEN Some(SourceBytes) ELSE NoFile]

NextWrites ==
    \E r \in Reqs :
        \/ Arrive(r)
        \/ CacheGetErr(r)
        \/ CacheHit(r)
        \/ CacheMiss(r)
        \/ ResultHit(r)
        \/ ResultMiss(r)
        \/ FetchUrl(r)
        \/ FetchBody(r)
        \/ FetchStorage(r)
        \/ ProcessAudio(r)
        \/ StoragePutOpen(r)
        \/ StoragePutWrite(r)
        \/ CacheSetOpen(r)
        \/ CacheSetWrite(r)
        \/ CacheSetMetaOpen(r)
        \/ CacheSetMetaWrite(r)

SpecWrites == InitWrites /\ [][NextWrites]_vars

(***************************************************************************)
(* One request served twice: Range handling of the response cache          *)
(***************************************************************************)
MaxBufLen == 3         \* longest response body, in bytes
MaxRangeBound == 3     \* largest number in a Range header

Bufs == TextsUpTo({1, 2}, MaxBufLen)
RangeBounds == {None} \cup {Some(n) : n \in 0..MaxRangeBound}
Ranges == {NoRange} \cup {<<[start |-> s, end |-> e]>> : s \in RangeBounds, e \in RangeBounds}

\* The miss branch: the handler's 200 response is passed on with its whole
\* body; the Range header is not looked at.
MissResponse(body) == [status |-> 200, body |-> body]

\* The request finds no cache entry: the handler produces `buf` from result
\* storage or by processing, the middleware caches it and answers.
ServeMiss ==
    /\ call.cache = None
    /\ Len(call.resps) < 2
    /\ call' = [call EXCEPT !.op = "miss", !.cache = Some(call.buf),
                            !.resps = Append(@, MissResponse(call.buf)),
                            !.headers = None]
    /\ UNCHANGED <<procVars, storeVars, req, arrivals, fsop>>

\* The request finds the entry in the cache.
ServeHit ==
    /\ call.cache # None
    /\ Len(call.resps) < 2
    /\ \E checks \in BOOLEAN :
        LET res == HitResponse(call.cache[1], call.range, checks)
        IN call' = [call EXCEPT !.op = "hit", !.resps = Append(@, res),
                                !.headers = IF res = Panicked THEN None
                                            ELSE Some(HitHeaders(call.cache[1],
                                                                 call.range, checks))]
    /\ UNCHANGED <<procVars, storeVars, req, arrivals, fsop>>

InitRange ==
    /\ ProcessorNew(1)
    /\ ppc = [c \in Callers |-> "idle"]
    /\ pHasPermit = [c \in Callers |-> FALSE]
    /\ pTempDir = [c \in Callers |-> FALSE]
    /\ pRet = [c \in Callers |-> "none"]
    /\ InitStores
    /\ storage = [k \in StorageKeys |-> NoFile]
    /\ req = [r \in Reqs |-> IdleReq]
    /\ arrivals = 0
    /\ fsop = <<>>
    /\ \E buf \in Bufs, range \in Ranges, warm \in BOOLEAN :
        call = [op |-> "input", buf |-> buf, range |-> range,
                cache |-> IF warm THEN Some(buf) ELSE None,
                resps |-> <<>>, headers |-> None]

NextRange == ServeMiss \/ ServeHit

SpecRange == InitRange /\ [][NextRange]_vars

(***************************************************************************)
(* Path signing (cyberpunkpath/hasher.rs) and auth_middleware              *)
(***************************************************************************)

\* The Argon2 digest of a password under an algorithm, version, parameters
\* and salt: an injective tag of its inputs.
Argon2Digest(alg, version, params, salt, password) ==
    <<alg, version, params, salt, password>>

\* A text that PasswordHash::new rejects.
NotPhc ==
    [phc |-> FALSE, alg |-> "", version |-> 0, params |-> <<>>, salt |-> "",
     digest |-> <<>>]

\* compute_hash: the PHC string of Argon2id, version 0x13, m=15000, t=2, p=1
\* over the path and a fresh salt.
ComputeHash(path, salt) ==
    [phc |-> TRUE, alg |-> "argon2id", version |-> 19, params |-> <<15000, 2, 1>>,
     salt |-> salt,
     digest |-> Argon2Digest("argon2id", 19, <<15000, 2, 1>>, salt, path)]

\* A mutant of VerifyHash: the candidate is hashed with the parameters of
\* Argon2::default() instead of those the PHC string carries.
VerifyHashDefaultParams(expected_path_hash, path_candidate) ==
    IF ~expected_path_hash.phc THEN "UnexpectedError"
    ELSE IF Argon2Digest("argon2id", 19, <<19456, 2, 1>>, expected_path_hash.salt,
                         path_candidate) = expected_path_hash.digest
         THEN "Ok" ELSE "InvalidCredentials"

\* verify_hash: PasswordHash::new parses the PHC string (an error otherwise);
\* verify_password hashes the candidate with the algorithm, version,
\* parameters and salt of the PHC string and compares the digests.
VerifyHash(expected_path_hash, path_candidate) ==
    IF ~expected_path_hash.phc THEN "UnexpectedError"
    ELSE IF Argon2Digest(expected_path_hash.alg, expected_path_hash.version,
                         expected_path_hash.params, expected_path_hash.salt,
                         path_candidate) = expected_path_hash.digest
         THEN "Ok" ELSE "InvalidCredentials"

Salts == {"s1", "s2"}

\* The hash a path segment spells: "$sig" is the PHC string issued to the
\* client, "$old" one issued for another path, anything else is no PHC string.
SegmentHash(seg, issued) ==
    CASE seg = <<"$sig">> -> issued
      [] seg = <<"$old">> -> ComputeHash(<<"old">>, "s1")
      [] OTHER -> NotPhc

\* uri.path().trim_start_matches("/meta").strip_prefix("/")
\*    .and_then(|s| s.split("/").next())
UriHash(uriPath) ==
    LET trimmed == TrimStartMatches(uriPath, <<"/", "meta">>)
    IN IF StartsWith(trimmed, <<"/">>)
       THEN Some(Split(SubSeq(trimmed, 2, Len(trimmed)), "/")[1])
       ELSE None

\* The URI paths of signed, unsigned and broken requests.
AuthPaths ==
    {pre \o <<"/">> \o sig \o tail :
        pre \in {<<>>, <<"/", "meta">>},
        sig \in {<<"unsafe">>, <<"$sig">>, <<"$old">>, <<"junk">>, <<>>},
        tail \in {<<>>, <<"/", "a">>}}
    \cup {<<>>}

\* The texts a client may sign or a verifier may be given for the request.
SignTexts ==
    UNION {Displays(res[1]) : res \in FromRequestParts(call.path, RawQuery(call.query))}
    \cup {<<"other">>}

\* compute_hash(text): a PHC string over a fresh salt.
CallComputeHash ==
    /\ call.op = "input"
    /\ \E text \in SignTexts, salt \in Salts :
        call' = [call EXCEPT !.op = "computed", !.signed = text,
                             !.hash = ComputeHash(text, salt)]
    /\ UNCHANGED <<procVars, storeVars, req, arrivals, fsop>>

\* verify_hash(hash, candidate), the hash being the computed one or no PHC string.
CallVerifyHash ==
    /\ call.op \in {"input", "computed"}
    /\ \E candidate \in SignTexts :
        call' = [call EXCEPT !.op = "verified", !.candidate = candidate,
                             !.result = VerifyHash(call.hash, candidate)]
    /\ UNCHANGED <<procVars, storeVars, req, arrivals, fsop>>

\* The outcomes of auth_middleware for a request, `lenient` telling whether a
\* failed verification is let through (never, in the code).
AuthOutcomes(lenient) ==
    LET hash == UriHash(call.path)
        rejected == [call EXCEPT !.op = "rejected", !.status = 400, !.seg = hash]
    IN UNION {
         IF res = None \/ hash = None THEN {rejected}
         ELSE {IF /\ hash[1] # <<"unsafe">>
                  /\ VerifyHash(SegmentHash(hash[1], call.hash), text) # "Ok"
                  /\ ~lenient
               THEN [rejected EXCEPT !.text = Some(text)]
               ELSE [call EXCEPT !.op = "passed", !.seg = hash, !.text = Some(text)]
               : text \in Displays(res[1])}
         : res \in FromRequestParts(call.path, RawQuery(call.query))}

\* A mutant of AuthMiddleware: a failed verification is logged and the request
\* goes on.
AuthMiddlewareLenient ==
    /\ call.op \in {"input", "computed"}
    /\ call' \in AuthOutcomes(TRUE)
    /\ UNCHANGED <<procVars, storeVars, req, arrivals, fsop>>

\* auth_middleware up to next.run: the extractor, the serialization, the hash
\* segment and its verification; 400 unless the segment is "unsafe" or verifies.
AuthMiddleware ==
    /\ call.op \in {"input", "computed"}
    /\ call' \in AuthOutcomes(FALSE)
    /\ UNCHANGED <<procVars, storeVars, req, arrivals, fsop>>

\* next.run(req): the request enters cache_middleware, which reads the cache.
RunNext ==
    /\ call.op = "passed"
    /\ call' = [call EXCEPT !.op = "next", !.ops = Append(@, "cache_get")]
    /\ UNCHANGED <<procVars, storeVars, req, arrivals, fsop>>

InitAuth ==
    /\ ProcessorNew(1)
    /\ ppc = [c \in Callers |-> "idle"]
    /\ pHasPermit = [c \in Callers |-> FALSE]
    /\ pTempDir = [c \in Callers |-> FALSE]
    /\ pRet = [c \in Callers |-> "none"]
    /\ InitStores
    /\ storage = [k \in StorageKeys |-> NoFile]
    /\ req = [r \in Reqs |-> IdleReq]
    /\ arrivals = 0
    /\ fsop = <<>>
    /\ \E path \in AuthPaths, query \in Queries :
        call = [op |-> "input", path |-> path, query |-> query, hash |-> NotPhc,
                signed |-> <<>>, candidate |-> <<>>, result |-> "", seg |-> None,
                text |-> None, status |-> 0, ops |-> <<>>]

NextAuth ==
    \/ CallComputeHash
    \/ CallVerifyHash
    \/ AuthMiddleware
    \/ RunNext

SpecAuth == InitAuth /\ [][NextAuth]_vars

(***************************************************************************)
(* Properties                                                              *)
(***************************************************************************)

Holders == {c \in Callers : pHasPermit[c]}

\* C1: at most max_concurrent calls hold a permit, and every call between the
\* acquire and the return of process_audio is one of them.
C1_ConcurrencyBound ==
    /\ Cardinality(Holders) <= maxConcurrent
    /\ InFlight \subseteq Holders
    /\ Cardinality(InFlight) <= maxConcurrent

\* The processor is at capacity while another call waits for a permit.
C1_Witness ==
    /\ maxConcurrent = MaxConcurrency
    /\ Cardinality(InFlight) = maxConcurrent
    /\ \E c \in Callers : ppc[c] = "wait"
    /\ waiters # <<>>

\* C2: a call that has returned, Ok or with an error from any step, holds
\* neither its permit nor its temp dir; when no call is in progress all
\* max_concurrent permits are back; a call waiting on the semaphore is
\* eventually admitted.
C2_ReleasedOnEveryExit ==
    /\ [](\A c \in Callers : ppc[c] = "idle" => ~pHasPermit[c] /\ ~pTempDir[c])
    /\ []((\A c \in Callers : ppc[c] = "idle") => permits = maxConcurrent)
    /\ \A c \in Callers : (ppc[c] = "acquire") ~> pHasPermit[c]

\* All calls have returned, one of them Ok and others with errors raised after
\* the temp dir was created.
C2_Witness ==
    /\ \A c \in Callers : ppc[c] = "idle"
    /\ permits = maxConcurrent
    /\ \E c1, c2, c3 \in Callers :
        pRet[c1] = "Ok" /\ pRet[c2] = "wait" /\ pRet[c3] = "read"

Has(r, ev) == \E i \in DOMAIN req[r].log : req[r].log[i] = ev

IsSlice(b, buf) ==
    \E i \in 0..Len(buf) : \E j \in i..Len(buf) : b = SubSeq(buf, i + 1, j)

HandlerEvents ==
    {"result_hit", "result_miss", "status_2xx", "status_non2xx", "fetch_ok", "fetch_err",
     "body_err", "process_ok", "process_err", "put_ok", "put_err", "set_ok", "set_err"}

\* C3: a request whose cache read found an unexpired entry under its key is
\* answered by the middleware from that entry (the whole entry when it carries
\* no Range header, a slice of it otherwise) and invokes neither result
\* storage, the source fetch, the processor nor a cache write.
C3_CacheHitShortCircuits ==
    \A r \in Reqs :
        LET q == req[r]
        IN /\ Has(r, "cache_hit") => q.held = Some(TRUE)
           /\ (q.held = Some(TRUE) /\ ~Has(r, "cache_err")) =>
                /\ q.pc = "done"
                /\ Has(r, "cache_hit")
                /\ \A ev \in HandlerEvents : ~Has(r, ev)
                /\ q.hkey = <<>> /\ q.cached = <<>>
                /\ q.range = NoRange =>
                       q.resp = Some([status |-> 200, body |-> q.seen[1]])
                /\ q.resp[1].status \in {200, 206} => IsSlice(q.resp[1].body, q.seen[1])

\* A request was answered with the whole of a non-empty cache entry.
C3_Witness ==
    \E r \in Reqs :
        /\ Has(r, "cache_hit")
        /\ req[r].resp[1].status = 200
        /\ req[r].resp[1].body = req[r].seen[1]
        /\ req[r].seen[1] # <<>>

\* C4: a request that missed the response cache and found an object under its
\* result key returns 200 with exactly those bytes, neither fetches nor
\* processes nor stores, and sets the response cache under its key with a TTL
\* of CACHE_TTL = 3600 seconds.
C4_ResultHitServed ==
    \A r \in Reqs :
        LET q == req[r]
        IN (Has(r, "cache_miss") /\ q.pc # "h_lookup" /\ q.seen # NoFile) =>
            /\ Has(r, "result_hit")
            /\ q.pc \in {"mw_set", "done"}
            /\ \A ev \in HandlerEvents \ {"result_hit", "set_ok", "set_err"} : ~Has(r, ev)
            /\ q.resp = Some([status |-> 200, body |-> q.seen[1]])
            /\ q.pc = "done" =>
                /\ Has(r, "set_ok") \/ Has(r, "set_err")
                /\ Has(r, "set_ok") =>
                       /\ q.cached[1] = Some(q.seen[1])
                       /\ q.cached[2] = Some(EpochSecs(q.cached[3]) + 3600)

\* A request was served from result storage and cached the bytes.
C4_Witness ==
    \E r \in Reqs :
        /\ Has(r, "result_hit") /\ Has(r, "set_ok")
        /\ req[r].pc = "done"
        /\ req[r].seen[1] # <<>>

StepEvents ==
    {"fetch_ok", "fetch_err", "body_err", "process_ok", "process_err",
     "put_ok", "put_err", "set_ok", "set_err", "respond"}
IsStep(ev) == ev \in StepEvents
StepOf(ev) ==
    CASE ev \in {"fetch_ok", "fetch_err", "body_err"} -> "fetch"
      [] ev \in {"process_ok", "process_err"} -> "process"
      [] ev \in {"put_ok", "put_err"} -> "put"
      [] ev \in {"set_ok", "set_err"} -> "set"
      [] OTHER -> "respond"
StepOk(ev) == ev \in {"fetch_ok", "process_ok", "put_ok", "set_ok"}
Steps(r) == SelectSeq(req[r].log, IsStep)
Chain == <<"fetch", "process", "put", "set", "respond">>
MissedBoth(r) == Has(r, "cache_miss") /\ Has(r, "result_miss")

\* C5 as claimed: the steps of a request that missed both lookups happen in
\* the order fetch, process, put, set, respond, each after the previous one
\* completed successfully.
C5_StrictlySequential ==
    \A r \in Reqs :
        MissedBoth(r) =>
            \A i \in 1..Len(Steps(r)) :
                /\ i <= Len(Chain) /\ StepOf(Steps(r)[i]) = Chain[i]
                /\ i > 1 => StepOk(Steps(r)[i - 1])

\* C5 amended: the same order; fetch, process and put have returned Ok before
\* the next step starts, and the response is emitted after the cache set has
\* returned, whether it returned Ok or an error.
C5_SequentialSetMayFail ==
    \A r \in Reqs :
        MissedBoth(r) =>
            \A i \in 1..Len(Steps(r)) :
                /\ i <= Len(Chain) /\ StepOf(Steps(r)[i]) = Chain[i]
                /\ i > 1 => StepOk(Steps(r)[i - 1]) \/ StepOf(Steps(r)[i - 1]) = "set"

\* A request ran the whole chain and responded although its cache set failed.
C5_Witness ==
    \E r \in Reqs :
        /\ MissedBoth(r)
        /\ Steps(r) = <<"fetch_ok", "process_ok", "put_ok", "set_err", "respond">>

\* C6 as claimed: a request whose cache read failed is not ended with an error
\* by that failure; it goes on to the result-storage lookup like a miss.
C6_CacheReadFailureNotFatal ==
    \A r \in Reqs :
        Has(r, "cache_err") =>
            /\ Has(r, "result_hit") \/ Has(r, "result_miss") \/ req[r].pc = "h_lookup"
            /\ ~(req[r].pc = "done" /\ req[r].log = <<"cache_err", "respond_err">>)

\* C7: a request whose put failed after a successful processor run ends with
\* 500, its body is not the processed bytes, and it makes no cache write.
C7_PutFailureIs500 ==
    \A r \in Reqs :
        LET q == req[r]
        IN Has(r, "put_err") =>
            /\ Has(r, "process_ok")
            /\ q.pc = "done"
            /\ q.resp[1].status = 500
            /\ q.resp[1].body # q.blob
            /\ ~Has(r, "set_ok") /\ ~Has(r, "set_err")
            /\ q.cached = <<>>

\* A put failed after the processor had produced its output.
C7_Witness ==
    \E r \in Reqs :
        /\ Has(r, "put_err") /\ Has(r, "process_ok")
        /\ req[r].blob = Transcode(SourceBytes, req[r].params)
        /\ req[r].resp[1].status = 500

\* C8 as claimed: when the GET of a URL key fails or answers non-2xx, or the
\* storage key is absent, the request returns 404 and never reaches the processor.
C8_SourceFailureIs404 ==
    \A r \in Reqs :
        (Has(r, "fetch_err") \/ Has(r, "status_non2xx")) =>
            /\ req[r].pc \notin {"h_process", "h_put", "mw_set"}
            /\ ~Has(r, "process_ok") /\ ~Has(r, "process_err")
            /\ req[r].pc = "done" => req[r].resp[1].status = 404

\* C9: a request whose processor run failed ends with 500 and performs no
\* result-storage put and no cache set.
C9_ProcessFailureIs500 ==
    \A r \in Reqs :
        LET q == req[r]
        IN Has(r, "process_err") =>
            /\ q.pc = "done"
            /\ q.resp[1].status = 500
            /\ \A ev \in {"put_ok", "put_err", "set_ok", "set_err"} : ~Has(r, ev)
            /\ q.cached = <<>>

\* The processor failed for a request whose source had been fetched.
C9_Witness ==
    \E r \in Reqs :
        /\ Has(r, "process_err") /\ Has(r, "fetch_ok")
        /\ req[r].pc = "done"

\* The last completed set of the key just read, and the tick its TTL ends at.
GotSet == fsop.last[fsop.got[1].key]
GotAfterTtlSet == fsop.got # None /\ GotSet # None /\ GotSet[1].ttl # None
TtlEnd == GotSet[1].at + GotSet[1].ttl[1] * TicksPerSec

\* C10 as claimed: after set(k, v, ttl = d) at time t, a get of k returns
\* Some(v) at every time before t + d and None at every time after t + d.
C10_ExpiresAtTtl ==
    GotAfterTtlSet =>
        /\ now < TtlEnd => fsop.got[1].res = Some(GotSet[1].val)
        /\ now > TtlEnd => fsop.got[1].res = None

\* C10 amended: Some(v) at every time before t + d; None at every time whose
\* epoch second is greater than the epoch second of t plus d, and Some(v) until
\* then.
C10_ExpiresAfterTtlSecond ==
    GotAfterTtlSet =>
        /\ now < TtlEnd => fsop.got[1].res = Some(GotSet[1].val)
        /\ EpochSecs(now) > EpochSecs(GotSet[1].at) + GotSet[1].ttl[1] =>
               fsop.got[1].res = None
        /\ EpochSecs(now) <= EpochSecs(GotSet[1].at) + GotSet[1].ttl[1] =>
               fsop.got[1].res = Some(GotSet[1].val)

\* A get after the TTL of the last set ran out returned None, the data file
\* still being there.
C10_Witness ==
    /\ GotAfterTtlSet
    /\ GotSet[1].ttl[1] > 0
    /\ now > TtlEnd
    /\ fsop.got[1].res = None
    /\ cacheData[fsop.got[1].key] # NoFile

\* The last get found an entry whose expiry second has passed.
GotExpired ==
    /\ GotAfterTtlSet
    /\ EpochSecs(now) > EpochSecs(GotSet[1].at) + GotSet[1].ttl[1]

\* C11: a get on an expired entry returns None and leaves the data file and
\* the .meta file as the set wrote them; no get changes any cache file.
C11_GetLeavesExpiredEntry ==
    /\ [](GotExpired =>
            /\ fsop.got[1].res = None
            /\ cacheData[fsop.got[1].key] = Some(GotSet[1].val)
            /\ cacheMeta[fsop.got[1].key] =
                   Some(EpochSecs(GotSet[1].at) + GotSet[1].ttl[1]))
    /\ [][fsop'.got # None => (cacheData' = cacheData /\ cacheMeta' = cacheMeta)]_vars

\* A get returned None for an expired entry whose two files are on disk.
C11_Witness ==
    /\ GotExpired
    /\ fsop.got[1].res = None
    /\ cacheData[fsop.got[1].key] # NoFile
    /\ cacheMeta[fsop.got[1].key] # NoFile

\* C12: a request under /meta gets the prefix meta_cache and any other request
\* the prefix req_cache, so the two never share a response-cache entry.
C12_MetaPrefixSeparatesEntries ==
    (call.op = "extract" /\ call.params # None) =>
        call.prefix = IF StartsWith(call.path, <<"/", "meta">>)
                      THEN META_CACHE_KEY_PREFIX ELSE CACHE_KEY_PREFIX

\* C18: the fingerprints computed from one request's Params are equal across
\* calls: the params_hash of the middleware's cache key is the params_hash the
\* handler computes.
C18_FingerprintsAgree ==
    \A r \in Reqs : req[r].hkey # <<>> => req[r].ckey.hash = req[r].hkey

\* C19: parsing the serialization of a parsed Params gives back a field-equal
\* Params.
C19_ParseInvertsSerialize ==
    call.op = "reparsed" => call.again = call.params

\* The last '/'-segment of a path.
IsLastSegment(key, path) ==
    /\ \A i \in 1..Len(key) : key[i] # "/"
    /\ Len(key) <= Len(path)
    /\ SubSeq(path, Len(path) - Len(key) + 1, Len(path)) = key
    /\ Len(key) < Len(path) => path[Len(path) - Len(key)] = "/"

\* C20: a successful from_path or from_str yields a non-empty key, the last
\* '/'-segment of the path.
C20_KeyNonEmpty ==
    (call.op \in {"from_path", "from_str"} /\ call.params # None) =>
        /\ call.params[1].key # <<>>
        /\ IsLastSegment(call.params[1].key, call.path)

\* The last response was a cache hit for a request with Range: bytes=s-e,
\* both bounds numbers.
HitWithRange ==
    /\ call.op = "hit"
    /\ call.range # NoRange
    /\ call.range[1].start # None
    /\ call.range[1].end # None
RangeStart == call.range[1].start[1]
RangeEnd == call.range[1].end[1]
LastResp == call.resps[Len(call.resps)]
Min(a, b) == IF a < b THEN a ELSE b

\* C13: a hit with Range: bytes=s-e, s <= e and s < n, is 206 with bytes
\* s..min(e, n-1), Content-Length min(e, n-1) - s + 1 and Content-Range
\* s-min(e, n-1)/n; a hit without Range is 200 with the whole entry and
\* Content-Length n.
C13_RangeSlice ==
    LET entry == call.cache[1]
        n == Len(entry)
    IN /\ (HitWithRange /\ n >= 1 /\ RangeStart <= RangeEnd /\ RangeStart < n) =>
            LET last == Min(RangeEnd, n - 1)
            IN /\ LastResp = [status |-> 206,
                              body |-> SubSeq(entry, RangeStart + 1, last + 1)]
               /\ call.headers =
                     Some([content_length |-> Some(last - RangeStart + 1),
                           content_range |-> Some(<<RangeStart, last, n>>)])
       /\ (call.op = "hit" /\ call.range = NoRange) =>
            /\ LastResp = [status |-> 200, body |-> entry]
            /\ call.headers = Some([content_length |-> Some(n), content_range |-> None])

\* A hit answered 206 with a range whose end lay beyond the entry.
C13_Witness ==
    /\ HitWithRange
    /\ RangeStart > 0
    /\ RangeEnd >= Len(call.cache[1])
    /\ LastResp.status = 206
    /\ Len(LastResp.body) >= 2

\* The Range header of the request is malformed for the entry: a bound that is
\* no number, a start after the end, or a start at or beyond the length.
MalformedRange ==
    /\ call.range # NoRange
    /\ \/ call.range[1].start = None
       \/ call.range[1].end = None
       \/ RangeStart > RangeEnd
       \/ RangeStart >= Len(call.cache[1])

\* C14: a hit with a malformed Range header is answered 400.
C14_MalformedRangeIs400 ==
    (call.op = "hit" /\ MalformedRange) => LastResp.status = 400

\* C15: a request with a satisfiable Range header gets the same response, 206
\* with the slice, from a cold cache (the first answer) as from the cache it
\* warmed (the second answer).
C15_SameResponseColdOrWarm ==
    (/\ Len(call.resps) = 2
     /\ call.range # NoRange
     /\ call.range[1].start # None
     /\ call.range[1].end # None
     /\ RangeStart <= RangeEnd
     /\ RangeStart < Len(call.buf))
    => /\ call.resps[1] = call.resps[2]
       /\ call.resps[1].status = 206

C17_ComputeThenVerify ==
    call.op = "verified" =>
        IF call.hash.phc
        THEN /\ call.candidate = call.signed => call.result = "Ok"
             /\ call.candidate # call.signed => call.result = "InvalidCredentials"
        ELSE call.result \notin {"Ok", ""}

\* A hash computed over the second salt verified against its own path.
C17_Witness ==
    /\ call.op = "verified"
    /\ call.hash.phc
    /\ call.hash.salt = "s2"
    /\ call.candidate = call.signed
    /\ call.result = "Ok"

\* The format values the parser knows by name, compared case-insensitively.
ListedFormats == {"mp3", "wav", "flac", "ogg", "m4a", "opus"}
IsListedFormat(v) == Len(v) = 1 /\ ToLowercase(v)[1] \in ListedFormats

\* C21: a format value that is none of mp3, wav, flac, ogg, m4a, opus (in any
\* case) parses to format = Mp3, never Unknown.
C21_UnlistedFormatIsMp3 ==
    call.op = "from_path" =>
        \A e \in call.query :
            e[1] = <<"format">> /\ ~IsListedFormat(e[2]) =>
                call.params[1].format = Some("mp3")

\* The sample values that are decimal integers, and decimal numbers.
WellFormedI32 == {<<"2">>, <<"+2">>, <<"44100">>}
WellFormedF64 == {<<"2">>, <<"0.8">>, <<"1.0">>, <<"1">>}

\* The field a query name addresses, "" when it addresses none.
FieldNamed(name) ==
    IF Len(name) = 1 /\ name[1] \in (DOMAIN DefaultParams) \ {"key", "custom_filters", "custom_options", "tags"}
    THEN name[1]
    ELSE IF name # <<>> /\ name[1] = "tag_" THEN "tags"
    ELSE IF name # <<>> /\ name[1] = "filter_" THEN "custom_filters"
    ELSE IF name # <<>> /\ name[1] = "option_" THEN "custom_options"
    ELSE ""

\* C22: from_path returns Ok for every query; a numeric field with a malformed
\* value is None; a boolean field is Some(true) exactly for "true" and "1" and
\* Some(false) otherwise; a name that addresses no field changes none.
C22_MalformedValuesTolerated ==
    call.op = "from_path" =>
        /\ call.params # None
        /\ \A e \in call.query :
            /\ Len(e[1]) = 1 /\ e[1][1] \in I32Fields /\ e[2] \notin WellFormedI32 =>
                   call.params[1][e[1][1]] = None
            /\ Len(e[1]) = 1 /\ e[1][1] \in F64Fields /\ e[2] \notin WellFormedF64 =>
                   call.params[1][e[1][1]] = None
            /\ Len(e[1]) = 1 /\ e[1][1] \in BoolFields =>
                   call.params[1][e[1][1]] = Some(e[2] \in {<<"true">>, <<"1">>})
        /\ \A f \in (DOMAIN DefaultParams) \ {"key"} :
            (\A e \in call.query : FieldNamed(e[1]) # f) => call.params[1][f] = None

\* A query with a malformed number, a boolean that is neither "true" nor "1"
\* and nothing else has been parsed.
C22_Witness ==
    /\ call.op = "from_path"
    /\ call.query = {<<<<"sample_rate">>, <<"0.8">>>>, <<<<"reverse">>, <<"yes">>>>}
    /\ call.params # None
    /\ call.params[1].sample_rate = None
    /\ call.params[1].reverse = Some(FALSE)

\* C23: normalize is idempotent under every safe-chars mode.
C23_NormalizeIdempotent ==
    call.op = "again" => call.again = call.out

\* C24: the normalized key holds none of CR, LF, VT, FF, NEL, LS, PS.
C24_NoLineBreaksInKey ==
    call.op = "normalize" =>
        \A i \in 1..Len(call.out[1]) :
            call.out[1][i] \notin {13, 10, 11, 12, 133, 8232, 8233}

\* The key without the line-break chars and without surrounding '/'.
Stripped(key) == SelectSeq(key, LAMBDA c : c \notin {13, 10, 11, 12, 133, 8232, 8233})
CleanedKey(key) ==
    LET s == Stripped(key)
        kept == {i \in 1..Len(s) : s[i] # 47}
    IN IF kept = {} THEN <<>>
       ELSE SubSeq(s, CHOOSE i \in kept : \A j \in kept : i <= j,
                      CHOOSE i \in kept : \A j \in kept : j <= i)

\* The safe bytes of a mode other than Noop: [A-Za-z0-9/_.~-] and the
\* configured ones.
SafeBytes(safe_chars) ==
    (48..57) \cup (65..90) \cup (97..122) \cup {47, 95, 46, 126, 45} \cup safe_chars.set

\* The upper-case hex digit of a nibble.
HexDigit(n) == IF n < 10 THEN 48 + n ELSE 55 + n

\* What the claim has one byte become.
ByteImage(b, safe_chars) ==
    IF b \in SafeBytes(safe_chars) THEN <<b>>
    ELSE IF b = 32 THEN <<43>>
    ELSE <<37, HexDigit(b \div 16), HexDigit(b % 16)>>

\* C25: byte by byte, the cleaned and trimmed key is kept where safe, has an
\* unsafe space turned into '+' and any other unsafe byte into %XX; under Noop
\* the result is the cleaned, trimmed key itself.
C25_EscapesByteWise ==
    call.op = "normalize" =>
        LET bytes == AsBytes(CleanedKey(call.key))
        IN IF call.safe_chars.kind = "Noop"
           THEN call.out[1] = CleanedKey(call.key)
           ELSE AsBytes(call.out[1]) =
                    Flatten([i \in 1..Len(bytes) |-> ByteImage(bytes[i], call.safe_chars)])

\* The key without a leading http:// or https://.
Unschemed(key) ==
    IF \E scheme \in {<<"http:", "/", "/">>, <<"https:", "/", "/">>} :
           Len(key) >= 3 /\ SubSeq(key, 1, 3) = scheme
    THEN SubSeq(key, 4, Len(key)) ELSE key

\* The places of a key where its extension can start: a '.' with no '/' and
\* no further '.' after it.
ExtensionStarts(k) ==
    {i \in 1..Len(k) : k[i] = "." /\ \A j \in (i + 1)..Len(k) : k[j] \notin {".", "/"}}

OptionFlags ==
    <<"-f", "-c:a", "-ar", "-ac", "-b:a", "-q:a", "-compression_level", "-ss", "-t",
      "-filter:a">>
OptionFields ==
    <<"format", "codec", "sample_rate", "channels", "bit_rate", "quality",
      "compression_level", "start_time", "duration", "">>
FlagIndex(arg) ==
    IF \E n \in 1..Len(OptionFlags) : arg = <<OptionFlags[n]>>
    THEN CHOOSE n \in 1..Len(OptionFlags) : arg = <<OptionFlags[n]>>
    ELSE 0

\* The custom options of a Params, and its arguments before them.
OptionsOf(p) == IF p.custom_options = None THEN <<>> ELSE p.custom_options[1]
MainArgs(p, args) == SubSeq(args, 1, Len(args) - Len(OptionsOf(p)))
ArgsDone == call.op = "to_ffmpeg_args"

\* C27: the arguments are flag/value pairs in the order -f, -c:a, -ar, -ac,
\* -b:a, -q:a, -compression_level, -ss, -t, -filter:a, one pair for each
\* present field and none for an absent one, the bit rate suffixed with 'k',
\* followed by the custom options in their given order.
C27_ArgsInFixedOrder ==
    ArgsDone =>
        LET p == call.params[1]
            args == call.args[1]
            main == MainArgs(p, args)
            pairs == Len(main) \div 2
        IN /\ Len(args) >= Len(OptionsOf(p))
           /\ SubSeq(args, Len(main) + 1, Len(args)) = OptionsOf(p)
           /\ Len(main) = 2 * pairs
           /\ \A n \in 1..pairs : FlagIndex(main[2 * n - 1]) > 0
           /\ \A n \in 1..(pairs - 1) :
                  FlagIndex(main[2 * n - 1]) < FlagIndex(main[2 * n + 1])
           /\ \A f \in 1..(Len(OptionFlags) - 1) :
                  (p[OptionFields[f]] # None)
                      <=> (\E n \in 1..pairs : main[2 * n - 1] = <<OptionFlags[f]>>)
           /\ \A n \in 1..pairs :
                  LET value == main[2 * n]
                      flag == main[2 * n - 1]
                  IN /\ flag = <<"-f">> =>
                            value = IF p.format[1] = "" THEN <<>> ELSE <<p.format[1]>>
                     /\ flag = <<"-c:a">> => value = p.codec[1]
                     /\ flag = <<"-ar">> => value = <<p.sample_rate[1]>>
                     /\ flag = <<"-ac">> => value = <<p.channels[1]>>
                     /\ flag = <<"-b:a">> => value = <<p.bit_rate[1], "k">>
                     /\ flag = <<"-compression_level">> => value = <<p.compression_level[1]>>
                     /\ flag \in {<<"-q:a">>, <<"-ss">>, <<"-t">>, <<"-filter:a">>} =>
                            value # <<>>

\* The Params of the example gave -f wav -c:a pcm_s16le -ar 44100 -ac 2.
C27_Witness ==
    /\ ArgsDone
    /\ call.params[1] = TestParams
    /\ call.args[1] = << <<"-f">>, <<"wav">>, <<"-c:a">>, <<"pcm_s16le">>,
                         <<"-ar">>, <<"44100">>, <<"-ac">>, <<"2">> >>

\* The filters in the order the claim fixes, named by their first token, and
\* the field each one comes from.
FilterHeads ==
    <<"atempo=", "areverse", "volume=", "loudnorm=I=", "lowpass=f=", "highpass=f=",
      "bandpass=", "bass=g=", "treble=g=", "aecho=", "chorus=", "flanger=", "aphaser=",
      "tremolo=", "acompressor=", "anlmdn=", "afade=t=in:d=", "afade=t=out:d=",
      "acrossfade=d=">>
FilterFields ==
    <<"speed", "reverse", "volume", "normalize", "lowpass", "highpass", "bandpass",
      "bass", "treble", "echo", "chorus", "flanger", "phaser", "tremolo", "compressor",
      "noise_reduction", "fade_in", "fade_out", "cross_fade">>
HeadIndex(filter) ==
    IF filter # <<>> /\ \E n \in 1..Len(FilterHeads) : filter[1] = FilterHeads[n]
    THEN CHOOSE n \in 1..Len(FilterHeads) : filter[1] = FilterHeads[n]
    ELSE 0

\* A field contributes a filter when it is present and not neutral.
Contributes(p, field) ==
    CASE field \in {"speed", "volume"} -> p[field] # None /\ p[field][1] # "1"
      [] field \in {"reverse", "normalize"} -> p[field] = Some(TRUE)
      [] OTHER -> p[field] # None

\* The filter list the arguments carry: the pieces of the value of -filter:a
\* between commas, empty without the flag.
FiltersIn(main) ==
    LET at == {n \in 1..(Len(main) \div 2) : main[2 * n - 1] = <<"-filter:a">>}
    IN IF at = {} THEN <<>> ELSE Split(main[2 * (CHOOSE n \in at : TRUE)], ",")
CustomFiltersOf(p) == IF p.custom_filters = None THEN <<>> ELSE p.custom_filters[1]

\* C28: -filter:a is there exactly when some filter is; the filters are one
\* per contributing field in the order atempo ... acrossfade, then the custom
\* filters in their given order; neutral speed, volume, reverse and normalize
\* contribute none.
C28_FiltersInFixedOrder ==
    ArgsDone =>
        LET p == call.params[1]
            main == MainArgs(p, call.args[1])
            list == FiltersIn(main)
            custom == CustomFiltersOf(p)
            own == Len(list) - Len(custom)
        IN /\ (\E n \in 1..Len(main) : main[n] = <<"-filter:a">>)
                  <=> (custom # <<>> \/ \E f \in 1..Len(FilterFields) :
                                            Contributes(p, FilterFields[f]))
           /\ own >= 0
           /\ SubSeq(list, own + 1, Len(list)) = custom
           /\ \A n \in 1..own : HeadIndex(list[n]) > 0
           /\ \A n \in 1..(own - 1) : HeadIndex(list[n]) < HeadIndex(list[n + 1])
           /\ \A f \in 1..Len(FilterFields) :
                  Contributes(p, FilterFields[f])
                      <=> (\E n \in 1..own : HeadIndex(list[n]) = f)

\* Every field set: all nineteen filters and the two custom ones are listed.
C28_Witness ==
    /\ ArgsDone
    /\ call.params[1] = FullParams
    /\ Len(FiltersIn(MainArgs(FullParams, call.args[1]))) = 21
    /\ FiltersIn(MainArgs(FullParams, call.args[1]))[1] = <<"atempo=", "0.800">>
    /\ FiltersIn(MainArgs(FullParams, call.args[1]))[21] = <<"f2">>

\* The positions of the -metadata pair of tag k with value v in a command.
PairAt(cmd, k, v) ==
    {i \in 2..Len(cmd) : cmd[i - 1] = <<"-metadata">> /\ cmd[i] = k \o <<"=">> \o v}

\* C29: for a tag key given by the request and process-wide, with different
\* values, the process-wide -metadata pair is absent from the command or comes
\* before the pair of the request.
C29_RequestTagOverrides ==
    call.op = "process_audio" /\ call.params[1].tags # None =>
        \A r \in call.params[1].tags[1], a \in call.additional_tags :
            r[1] = a[1] /\ r[2] # a[2] =>
                \A i \in PairAt(call.cmd[1], r[1], r[2]), j \in PairAt(call.cmd[1], a[1], a[2]) :
                    j < i

\* A name that matches [A-Za-z0-9_]+ : not empty and of ASCII word tokens.
AsciiWordTokens == {"artist", "processor", "timestamp", "host", "version", "invalid", "tag"}
IsAsciiWord(name) == name # <<>> /\ \A i \in 1..Len(name) : name[i] \in AsciiWordTokens

\* C30: create_tags fails with InvalidTagName when a custom name does not
\* match [A-Za-z0-9_]+, with InvalidTagValue when a custom value is longer than
\* 256 bytes, and returns no mapping then; otherwise the mapping holds
\* processor, timestamp, host, version and every custom tag.
C30_TagsValidated ==
    call.op = "create_tags" =>
        LET badName == \E e \in call.custom_tags : ~IsAsciiWord(e[1])
            longValue == \E e \in call.custom_tags : e[2].len > 256
            result == call.result[1]
        IN /\ badName \/ longValue => ~result.ok /\ result.tags = {}
           /\ badName /\ ~longValue => result.err = "InvalidTagName"
           /\ longValue /\ ~badName => result.err = "InvalidTagValue"
           /\ ~badName /\ ~longValue =>
                  /\ result.ok
                  /\ \A k \in {<<"processor">>, <<"timestamp">>, <<"host">>, <<"version">>} :
                         \E e \in result.tags : e[1] = k
                  /\ call.custom_tags \subseteq result.tags

\* C31: the filesystem storage is a key-value map over normalized keys: get(k)
\* returns the bytes of the latest put(k) that no later delete(k) removed and
\* fails when there is none, delete(k) fails when k holds no object, and a put
\* whose parent directories are missing creates them and succeeds.
C31_KeyValueMap ==
    /\ call.op = "get" =>
           IF call.held = None THEN call.err # ""
           ELSE call.err = "" /\ call.bytes = call.held[1]
    /\ call.op = "delete" /\ call.held = None => call.err # ""
    /\ call.op = "put" /\ call.fresh => call.err = ""

\* C33: for each supported format, parsing its string form gives Ok(format),
\* in whatever casing the string is written.
C33_FormatRoundTrip ==
    call.op = "parse" /\ call.format \in SupportedFormats
                      /\ ToLowercaseChars(call.text) = Extension(call.format)
        => call.parsed = [ok |-> TRUE, format |-> call.format]

\* "FlAc" was parsed.
C33_Witness ==
    /\ call.op = "parse"
    /\ call.format = "Flac"
    /\ call.text = <<70, 108, 65, 99>>
    /\ call.parsed = [ok |-> TRUE, format |-> "Flac"]

\* C35: an entry written by set(k, v, None) never expires: every get of k
\* until the next set or delete of k returns Some(v), whatever was written
\* under k before.
C35_NoTtlNeverExpires ==
    fsop.got # None /\ GotSet # None /\ GotSet[1].ttl = None
        => fsop.got[1].res = Some(GotSet[1].val)

\* C38: for every entry length and every range, the hit branch computes
\* (start, end) with start <= end <= total_size - 1 and does not panic.
C38_RangeNeverPanics ==
    (call.op = "hit" /\ call.range # NoRange) =>
        /\ LastResp # Panicked
        /\ call.headers # None
        /\ LET sent == call.headers[1].content_range[1]
           IN sent[1] <= sent[2] /\ sent[2] <= sent[3] - 1

\* j rounds of a failed attempt followed by a sleep
RECURSIVE Retries(_)
Retries(j) == IF j = 0 THEN <<>> ELSE <<"err", "sleep">> \o Retries(j - 1)

\* C39: wait_for_minio terminates; it has then made at most max_retries
\* attempts, a successful attempt was the last one and gave Ok, each failed
\* attempt but the max_retries-th was followed by one sleep of `delay`, and
\* the failure of the max_retries-th attempt gave an error.
C39_WaitTerminates ==
    /\ <>(call.pc = "returned")
    /\ [](call.pc = "returned" =>
            /\ \E j \in 0..MaxRetries :
                /\ call.slept = j * call.delay
                /\ \/ /\ call.ret = "Ok"
                      /\ j + 1 <= call.max_retries
                      /\ call.log = Retries(j) \o <<"ok">>
                   \/ /\ call.ret = "Err"
                      /\ j + 1 = call.max_retries
                      /\ call.log = Retries(j) \o <<"err">>
                   \/ /\ call.ret = "Err"
                      /\ call.max_retries = 0
                      /\ call.log = <<>>)

\* The call with max_retries = 3 returned Ok at its second attempt, after one sleep.
C39_Witness ==
    /\ call.pc = "returned"
    /\ call.max_retries = 3
    /\ call.ret = "Ok"
    /\ call.log = <<"err", "sleep", "ok">>
    /\ call.slept = 2

\* Two requests were received, they are identical, and each missed the
\* response cache and result storage and ran the processor.
BothProcessed ==
    /\ arrivals = 2
    /\ req[1].params = req[2].params
    /\ \A r \in Reqs : Has(r, "cache_miss") /\ Has(r, "result_miss") /\ Has(r, "process_ok")

\* C32: two concurrent identical requests can both miss and both run the
\* processor; when both have stored and cached the same processor output,
\* result storage and the response cache hold exactly that output under each
\* request's fingerprint.
C32_BothWritesIdempotent ==
    (/\ BothProcessed
     /\ req[1].blob = req[2].blob
     /\ \A r \in Reqs : req[r].pc = "done" /\ Has(r, "set_ok"))
        => \A r \in Reqs :
              /\ storage[req[r].hkey] = Some(req[r].blob)
              /\ cacheData[req[r].ckey] = Some(req[r].blob)

\* Both requests ran the processor on the stored source and were answered 200,
\* their writes having interleaved under one fingerprint.
C32_Witness ==
    /\ BothProcessed
    /\ req[1].hkey = req[2].hkey
    /\ req[1].ckey = req[2].ckey
    /\ \A r \in Reqs :
          /\ req[r].pc = "done"
          /\ Has(r, "set_ok")
          /\ req[r].resp[1] = [status |-> 200, body |-> Transcode(SourceBytes, req[r].params)]

\* The complete outputs of the processor for a Params: one for each body the
\* source can deliver.
Outputs(p) ==
    {Transcode(input, p) :
        input \in IF IsUrl(p.key) THEN {UrlBytes, UrlErrorBody} ELSE {SourceBytes}}

\* C34: every 200 response, sent or handed to the cache, carries the complete
\* processor output for its Params: no request sees an object or cache file
\* that another request is still writing.
C34_NoPartialResult ==
    \A r \in Reqs :
        (req[r].resp # <<>> /\ req[r].resp[1].status = 200)
            => req[r].resp[1].body \in Outputs(req[r].params)

\* No request is in flight.
Quiescent == \A r \in Reqs : req[r].pc \in {"idle", "done"}

\* C36: cache.set is only called with a 200 response; once the requests are
\* answered every cache entry is the whole body of one of these responses for
\* its key; a handler response that is not 200 is returned without a cache
\* write.
C36_OnlyOkBodiesCached ==
    /\ [](\A s \in call.sets : s[2].status = 200)
    /\ [](Quiescent =>
            \A k \in CacheKeys :
                cacheData[k] # NoFile =>
                    \E s \in call.sets : s[1] = k /\ s[2].body = cacheData[k][1])
    /\ [][\A r \in Reqs :
            (req[r].pc \in {"h_lookup", "h_fetch", "h_body", "h_process", "h_put", "h_write"}
             /\ req'[r].pc = "done")
                => /\ req'[r].resp[1].status # 200
                   /\ cacheData' = cacheData /\ cacheMeta' = cacheMeta /\ call' = call]_vars

\* The positions of a request inside cache.set.
SetPcs == {"mw_set", "mw_write", "mw_meta", "mw_meta_write"}

\* C37: when the set fails, at whichever write, the middleware returns the
\* handler's 200 response as it was.
C37_SetFailureKeepsResponse ==
    [][\A r \in Reqs :
          (req[r].pc \in SetPcs /\ req'[r].pc = "done")
              => req'[r].resp = req[r].resp /\ req[r].resp[1].status = 200]_vars

\* A request that ran the processor was answered 200 with the processed bytes
\* after its set had failed.
C37_Witness ==
    \E r \in Reqs :
        /\ req[r].pc = "done"
        /\ Has(r, "process_ok")
        /\ Has(r, "set_err")
        /\ req[r].resp[1] = [status |-> 200, body |-> Transcode(SourceBytes, req[r].params)]

====
